---- MODULE Spec2Model ----
(***************************************************************************)
(* A model of firestate's optimistic synchronization engine: the diff      *)
(* algebra (diff.ts), the document subscription (document.ts), the        *)
(* collection subscription (collection.ts), the undo manager they push     *)
(* into (undo.ts) and the store they report to (store.ts), together with   *)
(* the remote store the subscriptions talk to.                             *)
(***************************************************************************)
EXTENDS Integers, Sequences, FiniteSets, TLC

(***************************************************************************)
(* Values.  A JavaScript value is a tagged record: undefined, a primitive, *)
(* a plain object (a mapping from its own keys to values) or the           *)
(* deleteField() sentinel.                                                 *)
(***************************************************************************)
Undef == [k |-> "undef"]

DelF == [k |-> "del"]

P(v) == [k |-> "p", v |-> v]

O(m) == [k |-> "o", m |-> m]

\* an array, given as the sequence of its items
Arr(items) == [k |-> "a", v |-> items]

\* the serverTimestamp() sentinel
ServerTs == [k |-> "ts"]

EmptyObj == O([key \in {} |-> Undef])

isPlainObject(value) == value.k = "o"

\* Object.keys(obj); a primitive or undefined has no own keys
Keys(obj) == IF isPlainObject(obj) THEN DOMAIN obj.m ELSE {}

\* obj[key]: undefined when the key is absent
Get(obj, key) == IF key \in Keys(obj) THEN obj.m[key] ELSE Undef

\* an object literal {f: v, ...} given as a set of <<key, value>> pairs
Obj(pairs) ==
    O([key \in {pr[1] : pr \in pairs} |->
          (CHOOSE pr \in pairs : pr[1] = key)[2]])

RECURSIVE isDeepEqual(_, _)
isDeepEqual(a, b) ==
    CASE a.k = "undef" /\ b.k = "undef" -> TRUE
      [] a.k = "p" /\ b.k = "p" -> a.v = b.v
      [] a.k = "a" /\ b.k = "a" ->
            /\ Len(a.v) = Len(b.v)
            /\ \A i \in 1..Len(a.v) : a.v[i] = b.v[i]
      [] a.k = "o" /\ b.k = "o" ->
            /\ Cardinality(Keys(a)) = Cardinality(Keys(b))
            /\ \A key \in Keys(a) : isDeepEqual(a.m[key], Get(b, key))
      [] OTHER -> FALSE

\* the value computeDiff stores under `key`, Undef when it stores nothing
RECURSIVE computeDiff(_, _)
DiffEntry(from, to, key) ==
    LET fromValue == Get(from, key)
        toValue == Get(to, key)
    IN  IF key \in Keys(from) /\ toValue = Undef
        THEN DelF
        ELSE IF isPlainObject(toValue)
        THEN IF ~isDeepEqual(fromValue, toValue)
             THEN LET nestedDiff ==
                          computeDiff(IF fromValue = Undef THEN EmptyObj
                                      ELSE fromValue, toValue)
                  IN  IF Keys(nestedDiff) # {} THEN nestedDiff ELSE Undef
             ELSE Undef
        ELSE IF toValue # Undef /\ fromValue # toValue
        THEN toValue
        ELSE Undef

computeDiff(from, to) ==
    IF to = Undef
    THEN DelF
    ELSE LET all == Keys(to) \cup Keys(from)
             keys == {key \in all : DiffEntry(from, to, key) # Undef}
         IN  O([key \in keys |-> DiffEntry(from, to, key)])

\* the value applyDiffMutable leaves under `key`, Undef when the key is gone
RECURSIVE applyDiffMutable(_, _)
ApplyEntry(target, diff, key) ==
    LET value == Get(diff, key)
        existingValue == Get(target, key)
    IN  IF key \notin Keys(diff)
        THEN existingValue
        ELSE IF value = DelF
        THEN Undef
        ELSE IF isPlainObject(value)
        THEN applyDiffMutable(IF isPlainObject(existingValue)
                              THEN existingValue ELSE EmptyObj, value)
        ELSE value

\* the target after applyDiffMutable(target, diff)
applyDiffMutable(target, diff) ==
    LET all == Keys(target) \cup Keys(diff)
        keys == {key \in all : ApplyEntry(target, diff, key) # Undef}
    IN  O([key \in keys |-> ApplyEntry(target, diff, key)])

deepClone(value) == value

\* flattenDiff: the set of <<dotted path, leaf>> pairs, a path being the
\* sequence of its keys
RECURSIVE flattenDiff(_, _)
flattenDiff(diff, prefix) ==
    UNION { LET value == diff.m[key]
                path == Append(prefix, key)
            IN  IF isPlainObject(value)
                THEN flattenDiff(value, path)
                ELSE {<<path, value>>} : key \in Keys(diff) }

applyDiff(st, diff) == applyDiffMutable(deepClone(st), diff)

computeUndoDiff(startState, diff) ==
    LET endState == applyDiff(startState, diff)
    IN  computeDiff(endState, startState)

\* `${prefix}.${key}`: a dotted key is the sequence of its parts with "."
\* between them
RECURSIVE dotted(_)
dotted(path) ==
    IF Len(path) <= 1 THEN path
    ELSE <<Head(path), ".">> \o dotted(Tail(path))

\* path.split('.')
RECURSIVE split(_)
split(str) ==
    IF \A i \in 1..Len(str) : str[i] # "." THEN <<str>>
    ELSE LET dot == CHOOSE i \in 1..Len(str) :
                        str[i] = "." /\ \A j \in 1..(i - 1) : str[j] # "."
         IN  <<SubSeq(str, 1, dot - 1)>> \o split(SubSeq(str, dot + 1, Len(str)))

\* the name a part of a dotted key spells: the key itself when it is one
\* token long, else the tokens run together
partName(part) == IF Len(part) = 1 THEN part[1] ELSE part

\* the object flattenDiff(diff) returns, as the set of its <<dotted key,
\* value>> entries
flattenedDiff(diff) ==
    {<<dotted(pr[1]), pr[2]>> : pr \in flattenDiff(diff, <<>>)}

\* unflattenDiff on entries given as <<parts, value>>: the leaf stored under
\* a one-part path, else the object built from the paths that start with
\* the key
RECURSIVE unflattenParts(_)
unflattenParts(entries) ==
    LET heads == {partName(Head(e[1])) : e \in entries}
        under(key) == {e \in entries : partName(Head(e[1])) = key}
        leaves(key) == {e \in under(key) : Len(e[1]) = 1}
    IN  O([key \in heads |->
              IF leaves(key) # {}
              THEN (CHOOSE e \in leaves(key) : TRUE)[2]
              ELSE unflattenParts({<<Tail(e[1]), e[2]>> : e \in under(key)})])

unflattenDiff(flatDiff) ==
    unflattenParts({<<split(e[1]), e[2]>> : e \in flatDiff})

(***************************************************************************)
(* Bounds of the model and the inputs it draws from.                       *)
(***************************************************************************)
\* user edits (update, set, delete calls) made in one run
MaxEdits == 2

\* remote operations dispatched by the resource in one run
MaxWrites == 2

\* changes another party makes to the remote document in one run
MaxForeign == 1

\* calls of start() that open a listener in one run
MaxStarts == 3

\* changes another party makes to the remote document while the subscription
\* is started and stopped
MaxLifeForeign == 2

\* edits the user makes while the subscription is started and stopped
MaxLifeEdits == 1

\* actions the undo manager's own user pushes in one run
MaxPushes == 4

\* edits the user makes, and changes another party makes, in a run that
\* records what each snapshot found
MaxSnapEdits == 2

MaxSnapForeign == 1

\* edits the user makes to the document in one run of SpecGroup
MaxGroupEdits == 2

\* updates the user makes to the document in one run of SpecLive
MaxLiveEdits == 2

\* actions pushed in one run onto the undo manager whose procedures take time
MaxAsyncPushes == 3

\* number of sync keys (one per document or collection subscription) that
\* report to the store
MaxSyncKeys == 2

SyncKeys == 1..MaxSyncKeys

\* the functions given to store.subscribeToSyncState
Fns == {"f", "g"}

\* FirestateConfig.onError: absent, a handler that returns, a handler that
\* throws
Handlers == {"none", "returns", "throws"}

\* the errors reported to the store and the contexts they are reported with
Errors == {"permission-denied", "unavailable"}

Contexts ==
    {[type |-> "document", path |-> "users/u1", operation |-> "read"],
     [type |-> "collection", path |-> "todos", operation |-> "write"]}

\* the keys of the records the diff functions are called on, and the keys of
\* the records nested in them
DiffKeys == {"x", "y"}

NestedKeys == {"x"}

\* the objects with some of `keys` as own keys and values among `values`
ObjectsOver(keys, values) ==
    {O(m) : m \in UNION {[some -> values] : some \in SUBSET keys}}

\* the values of a record that are not records: two primitives and an array
Leaves == {P("x"), P("y"), Arr(<<"x">>)}

\* the records: leaves, records nested in records, down to the third level,
\* the empty record among the nested ones at each level
Records ==
    LET inner == ObjectsOver(NestedKeys, Leaves)
        middle == ObjectsOver(NestedKeys, Leaves \cup inner)
    IN  ObjectsOver(DiffKeys, Leaves \cup middle)

\* the nested diffs: their leaves are also the two sentinels
Diffs ==
    LET leaves == {P("x"), Arr(<<"x">>), DelF, ServerTs}
        inner == ObjectsOver(NestedKeys, leaves)
        middle == ObjectsOver(NestedKeys, leaves \cup inner)
    IN  ObjectsOver(DiffKeys, leaves \cup middle)

\* the groupIds of those actions: none, the empty string, two names
GroupIds == {"none", "", "g1", "g2"}

\* edits the user makes to the collection in one run
MaxColEdits == 2

\* batches the collection's flushes commit in one run
MaxColBatches == 1

\* changes another party makes to the remote collection in one run
MaxColForeign == 1

\* the ids of the collection's entities; one of them is also the name of a
\* property every JavaScript object inherits
Ids == {"d1", "constructor"}

\* the names `key in {}` is true of: those of Object.prototype that are
\* among the ids
ProtoKeys == {"constructor"}

\* the data of an entity, as add() is given it and as the remote store holds
\* it
Stored(v) == Obj({<<"v", P(v)>>})

\* the remote collection at construction: empty, or holding d1
InitialColls == {EmptyObj, Obj({<<"d1", Stored("x")>>})}

\* configured length of the undo history (UndoManagerConfig.maxLength)
maxLength == 2

\* the fields of the documents of the model
Fields == {"a", "b"}

Doc(a, b) == Obj({<<"a", P(a)>>, <<"b", P(b)>>})

NonUndoable == [undoable |-> FALSE, undoGroupId |-> "none"]

Undoable == [undoable |-> TRUE, undoGroupId |-> "none"]

\* the calls of update() the user makes: a diff setting one field, with the
\* default options or marked undoable: false
Updates == {<<Obj({<<"a", P("y")>>}), Undoable>>,
            <<Obj({<<"a", P("x")>>}), Undoable>>,
            <<Obj({<<"b", P("y")>>}), Undoable>>,
            <<Obj({<<"b", P("y")>>}), NonUndoable>>}

\* the calls of set() the user makes: a full value, and the options
Sets == {<<Doc("y", "x"), Undoable>>}

\* what another party leaves of the remote document: a changed field, or
\* nothing (a delete)
ForeignDocs == {Doc("x", "y"), Undef}

\* the document the remote store holds before anyone edits it
InitialDoc == Doc("x", "x")

(***************************************************************************)
(* State.                                                                  *)
(***************************************************************************)
VARIABLES
    state,                \* DocumentInternalState
    isReadOnly,           \* readOnly ?? definition.readOnly ?? false
    retryOnError,         \* definition.retryOnError
    unsubscribeListener,  \* TRUE while the Firestore listener is attached
    autosaveTimeout,      \* the debounce handle: "null", "pending", "fired"
    autosaveTimers,       \* debounce timers that are set and not yet fired
    retryTimeout,         \* the retry handle: "null", "pending", "fired"
    retryTimers,          \* retry timers that are set and not yet fired
    minLoadTimers,        \* minimum-load-time timers not yet fired, each named
                          \* by the start() that set it
    listenerLive,         \* FALSE once the listener's error callback has run
    minLoadTimeElapsed,
    loaded,
    registry,             \* the store's entry for syncKey: "unset", "synced", "unsynced"
    sink,                 \* errors reported to the store, per operation
    undoStack,            \* store.undoManager
    redoStack,
    remote,               \* the remote document, Undef when it does not exist
    writes,               \* remote operations dispatched and not yet answered
    snapQ,                \* snapshots on their way to the listener
    nWrites,              \* remote operations dispatched so far
    nEdits,               \* user edits made so far
    nForeign,             \* changes made by another party so far
    nStarts,              \* calls of start() that opened a listener so far
    pushed,               \* history: the groupIds of the actions the undo
                          \* manager's own user pushed, in push order
    stopped,              \* history: stop() ran, and no start() or edit since
    procLog,              \* history: the procedures the undo manager ran last
    col,                  \* the collection subscription and its remote collection
    awaiting,             \* the undo manager's undo() and redo() calls whose
                          \* procedure has not settled, in the order invoked
    subscribers,          \* the undo manager's subscriber and what it was
                          \* last called with
    hist,                 \* history of the undo manager's calls: what they
                          \* would leave run one after another, and the
                          \* stacks before the undo() of a round trip
    store,                \* a store of its own: syncStates, syncSubscribers,
                          \* onError
    calc,                 \* the diff functions called on their own: their
                          \* arguments and what they returned
    edit,                 \* history: the most recent local edit
    track                 \* history: the flushed writes not yet answered

vars == <<state, isReadOnly, retryOnError, unsubscribeListener, autosaveTimeout,
          autosaveTimers, retryTimeout, retryTimers, minLoadTimers, listenerLive,
          minLoadTimeElapsed, loaded, registry, sink, undoStack, redoStack, remote,
          writes, snapQ, nWrites, nEdits, nForeign, nStarts, pushed, stopped,
          procLog, edit,
          track, col, awaiting, subscribers, hist, store, calc>>

\* history of the most recent local edit: its kind, whether it was undoable, who
\* made it, whether sync() ran since, the undo actions sync() pushed since; and
\* of the edits since sync() last took the local state up: the update() calls
\* among them, whether all were update() calls of the user with the default
\* options, and the fields touched since localState was last absent
\* no subscriber of the undo manager
Unsubscribed == [on |-> FALSE, seen |-> Undef]

\* no call made yet
NoHist == [valid |-> TRUE, undoStack |-> <<>>, redoStack |-> <<>>,
           trip |-> "none", undoBefore |-> <<>>, redoBefore |-> <<>>]

NoEdit == [kind |-> "none", undoable |-> TRUE, by |-> "none", flushed |-> FALSE,
           pushes |-> 0, updates |-> 0, plain |-> TRUE, touched |-> {}]

ConstructedAs(readOnly) ==
    /\ state = [syncState |-> Undef, localState |-> Undef, isLoading |-> TRUE,
                error |-> "none", waitingForUpdate |-> FALSE,
                inflightLocalState |-> Undef, pendingUndoOptions |-> Undef,
                isSetOperation |-> FALSE]
    /\ isReadOnly = readOnly
    /\ unsubscribeListener = FALSE
    /\ listenerLive = FALSE
    /\ autosaveTimeout = "null"
    /\ autosaveTimers = 0
    /\ retryTimeout = "null"
    /\ retryTimers = 0
    /\ minLoadTimers = {}
    /\ minLoadTimeElapsed = FALSE
    /\ loaded = FALSE
    /\ registry = "unset"
    /\ sink = [read |-> 0, write |-> 0]
    /\ undoStack = <<>>
    /\ redoStack = <<>>
    /\ remote \in {InitialDoc, Undef}
    /\ writes = <<>>
    /\ snapQ = <<>>
    /\ nWrites = 0
    /\ nEdits = 0
    /\ nForeign = 0
    /\ nStarts = 0
    /\ pushed = <<>>
    /\ stopped = FALSE
    /\ procLog = <<>>
    /\ edit = NoEdit
    /\ track = {}
    /\ awaiting = <<>>
    /\ subscribers = Unsubscribed
    /\ hist = NoHist

\* a document that is not read-only
Constructed == ConstructedAs(FALSE)

(***************************************************************************)
(* The handlers.  Each takes the world it runs in (the variables a handler *)
(* may change) and gives the world it leaves.                              *)
(***************************************************************************)
World == [state |-> state, autosaveTimeout |-> autosaveTimeout,
          autosaveTimers |-> autosaveTimers, registry |-> registry,
          sink |-> sink, undoStack |-> undoStack, redoStack |-> redoStack,
          writes |-> writes, nWrites |-> nWrites, edit |-> edit,
          track |-> track, unsubscribeListener |-> unsubscribeListener,
          listenerLive |-> listenerLive, retryTimeout |-> retryTimeout,
          retryTimers |-> retryTimers, minLoadTimers |-> minLoadTimers,
          minLoadTimeElapsed |-> minLoadTimeElapsed, loaded |-> loaded,
          snapQ |-> snapQ, nStarts |-> nStarts, stopped |-> stopped,
          procLog |-> procLog]

Commit(w) ==
    /\ state' = w.state
    /\ autosaveTimeout' = w.autosaveTimeout
    /\ autosaveTimers' = w.autosaveTimers
    /\ registry' = w.registry
    /\ sink' = w.sink
    /\ undoStack' = w.undoStack
    /\ redoStack' = w.redoStack
    /\ writes' = w.writes
    /\ nWrites' = w.nWrites
    /\ edit' = w.edit
    /\ track' = w.track
    /\ unsubscribeListener' = w.unsubscribeListener
    /\ listenerLive' = w.listenerLive
    /\ retryTimeout' = w.retryTimeout
    /\ retryTimers' = w.retryTimers
    /\ minLoadTimers' = w.minLoadTimers
    /\ minLoadTimeElapsed' = w.minLoadTimeElapsed
    /\ loaded' = w.loaded
    /\ snapQ' = w.snapQ
    /\ nStarts' = w.nStarts
    /\ stopped' = w.stopped
    /\ procLog' = w.procLog

getMergedData(st) ==
    IF st.localState # Undef THEN st.localState ELSE st.syncState

isSynced(st) == st.localState = Undef

\* notify() without its report to the store
notifyWithoutReport(w) == w

\* notify(): what store.reportSyncState(syncKey, isSynced) records
notify(w) ==
    [w EXCEPT !.registry = IF isSynced(w.state) THEN "synced" ELSE "unsynced"]

\* scheduleAutosave without the clearTimeout of the timer already pending
scheduleAutosaveStacking(w) ==
    [w EXCEPT !.autosaveTimeout = "pending", !.autosaveTimers = @ + 1]

scheduleAutosave(w) ==
    LET cleared == IF w.autosaveTimeout = "pending"
                   THEN w.autosaveTimers - 1 ELSE w.autosaveTimers
    IN  [w EXCEPT !.autosaveTimeout = "pending", !.autosaveTimers = cleared + 1]

\* store.reportError(error, {operation})
reportError(w, operation) ==
    [w EXCEPT !.sink[operation] = @ + 1]

\* history: the edits made since write t was dispatched, net of those that
\* put a field back to what t wrote
lateAfter(t, old, new) ==
    LET changed == {f \in Keys(old) \cup Keys(new) : Get(old, f) # Get(new, f)}
        val(f) == IF f \in changed
                  THEN IF Get(new, f) = Get(t.base, f) THEN Undef
                       ELSE IF Get(new, f) = Undef THEN DelF ELSE Get(new, f)
                  ELSE Get(t.late, f)
        keys == {f \in changed \cup Keys(t.late) : val(f) # Undef}
    IN  O([f \in keys |-> val(f)])

\* history: a local edit of `kind` made `by` someone took merged value `old`
\* to `new`
noteEdit(w, kind, by, undoOptions, old, new, fields) ==
    [w EXCEPT
       !.edit = [kind |-> kind, undoable |-> undoOptions.undoable, by |-> by,
                 flushed |-> FALSE, pushes |-> 0,
                 updates |-> IF kind = "update" /\ by = "user"
                             THEN w.edit.updates + 1 ELSE w.edit.updates,
                 plain |-> /\ w.edit.plain
                           /\ kind = "update" /\ by = "user"
                           /\ undoOptions.undoable,
                 touched |-> (IF w.state.localState = Undef THEN {}
                              ELSE w.edit.touched) \cup fields],
       !.track = {[t EXCEPT !.late = lateAfter(t, old, new)] : t \in w.track},
       !.stopped = FALSE]

\* updateState leaving isSetOperation as the last set() left it
updatedStateKeepingSet(st, diff, undoOptions) ==
    [st EXCEPT !.localState = applyDiffMutable(deepClone(getMergedData(st)), diff),
               !.pendingUndoOptions = undoOptions]

\* updateState's assignments to the sync record
updatedState(st, diff, undoOptions) ==
    [st EXCEPT !.localState = applyDiffMutable(deepClone(getMergedData(st)), diff),
               !.pendingUndoOptions = undoOptions,
               !.isSetOperation = FALSE]

\* updateState without its test of isReadOnly
updateStateOfReadOnly(w, diff, undoOptions, by) ==
    IF getMergedData(w.state) = Undef
    THEN w
    ELSE LET st == updatedState(w.state, diff, undoOptions)
             noted == noteEdit(w, "update", by, undoOptions,
                               getMergedData(w.state), st.localState, Keys(diff))
         IN  scheduleAutosave(notify([noted EXCEPT !.state = st]))

updateState(w, diff, undoOptions, by) ==
    IF isReadOnly \/ getMergedData(w.state) = Undef
    THEN w
    ELSE LET st == updatedState(w.state, diff, undoOptions)
             noted == noteEdit(w, "update", by, undoOptions,
                               getMergedData(w.state), st.localState, Keys(diff))
         IN  scheduleAutosave(notify([noted EXCEPT !.state = st]))

\* setData's assignments to the sync record
replacedState(st, data, undoOptions) ==
    [st EXCEPT !.localState = deepClone(data),
               !.pendingUndoOptions = undoOptions,
               !.isSetOperation = TRUE]

setData(w, data, undoOptions, by) ==
    IF isReadOnly
    THEN w
    ELSE LET st == replacedState(w.state, data, undoOptions)
             noted == noteEdit(w, "set", by, undoOptions,
                               getMergedData(w.state), st.localState, Fields)
         IN  scheduleAutosave(notify([noted EXCEPT !.state = st]))

(***************************************************************************)
(* The undo manager (createUndoManager) and the hook's onPushUndo.  An     *)
(* action's undo and redo are the sequences of procedures they run; a      *)
(* procedure is the edit it makes on the document, or a mark it leaves in  *)
(* the log of the manager's own user.                                      *)
(***************************************************************************)
\* a groupId that `action.groupId &&` lets through: neither undefined nor the
\* empty string
truthy(groupId) == groupId \notin {"none", ""}

\* push merging into the top entry whatever groupId that entry has
pushMergingAnyGroup(w, action) ==
    LET n == Len(w.undoStack)
        top == w.undoStack[n]
    IN  IF truthy(action.groupId) /\ n > 0
        THEN [w EXCEPT
                !.undoStack = Append(SubSeq(w.undoStack, 1, n - 1),
                                     [undo |-> top.undo \o action.undo,
                                      redo |-> action.redo \o top.redo,
                                      groupId |-> action.groupId,
                                      from |-> top.from, to |-> action.to]),
                !.redoStack = <<>>]
        ELSE LET appended == Append(w.undoStack, action)
             IN  [w EXCEPT
                    !.undoStack = IF Len(appended) > maxLength
                                  THEN Tail(appended) ELSE appended,
                    !.redoStack = <<>>]

\* push dropping the entry it has just appended when the bound is exceeded
pushEvictingNewest(w, action) ==
    LET n == Len(w.undoStack)
        top == w.undoStack[n]
    IN  IF truthy(action.groupId) /\ n > 0 /\ top.groupId = action.groupId
        THEN [w EXCEPT
                !.undoStack = Append(SubSeq(w.undoStack, 1, n - 1),
                                     [undo |-> top.undo \o action.undo,
                                      redo |-> action.redo \o top.redo,
                                      groupId |-> action.groupId,
                                      from |-> top.from, to |-> action.to]),
                !.redoStack = <<>>]
        ELSE [w EXCEPT
                !.undoStack = IF n + 1 > maxLength
                              THEN w.undoStack ELSE Append(w.undoStack, action),
                !.redoStack = <<>>]

push(w, action) ==
    LET n == Len(w.undoStack)
        top == w.undoStack[n]
    IN  IF truthy(action.groupId) /\ n > 0 /\ top.groupId = action.groupId
        THEN [w EXCEPT
                !.undoStack = Append(SubSeq(w.undoStack, 1, n - 1),
                                     [undo |-> top.undo \o action.undo,
                                      redo |-> action.redo \o top.redo,
                                      groupId |-> action.groupId,
                                      from |-> top.from, to |-> action.to]),
                !.redoStack = <<>>]
        ELSE LET appended == Append(w.undoStack, action)
             IN  [w EXCEPT
                    !.undoStack = IF Len(appended) > maxLength
                                  THEN Tail(appended) ELSE appended,
                    !.redoStack = <<>>]

\* useDocument's onPushUndo (the hook's undoable option left at its default);
\* history: the values the action goes between, `from` before the edit and
\* `to` after it
onPushUndo(w, undoAction, redoAction, opts, from, to) ==
    LET entered == push(w, [undo |-> <<undoAction>>, redo |-> <<redoAction>>,
                           groupId |-> IF opts = Undef THEN "none"
                                       ELSE opts.undoGroupId,
                           from |-> from, to |-> to])
    IN  [entered EXCEPT !.edit.pushes = IF undoAction.op = "update"
                                       THEN @ + 1 ELSE @]

\* the remote operation sync() or deleteDocument() awaits
dispatch(w, kind, payload) ==
    [w EXCEPT !.writes = Append(@, [id |-> w.nWrites + 1, kind |-> kind,
                                    payload |-> payload,
                                    pending |-> w.edit.kind,
                                    touched |-> w.edit.touched]),
              !.nWrites = @ + 1]

deleteDocument(w, undoOptions) ==
    IF isReadOnly
    THEN w
    ELSE LET currentData == getMergedData(w.state)
             entered == IF undoOptions.undoable # FALSE /\ currentData # Undef
                        THEN onPushUndo(w, [op |-> "set",
                                           arg |-> deepClone(currentData)],
                                       [op |-> "delete", arg |-> Undef],
                                       undoOptions, currentData, Undef)
                       ELSE w
         IN  dispatch(entered, "delete", Undef)

runProc(w, p, by) ==
    CASE p.op = "update" -> updateState(w, p.arg, NonUndoable, by)
      [] p.op = "set" -> setData(w, p.arg, NonUndoable, by)
      [] p.op = "delete" -> deleteDocument(w, NonUndoable)
      [] p.op = "mark" -> [w EXCEPT !.procLog = Append(@, p.arg)]

RECURSIVE runProcs(_, _, _)
runProcs(w, procs, by) ==
    IF procs = <<>> THEN w
    ELSE runProcs(runProc(w, Head(procs), by), Tail(procs), by)

\* undoManager.undo() on a non-empty stack; the procedures of a document
\* never fail
undo(w) ==
    LET n == Len(w.undoStack)
        action == w.undoStack[n]
        popped == [w EXCEPT !.undoStack = SubSeq(@, 1, n - 1)]
        done == runProcs(popped, action.undo, "undo")
    IN  [done EXCEPT !.redoStack = Append(@, action)]

\* undoManager.redo() on a non-empty stack, taken in one step with the
\* procedures it awaits
redo(w) ==
    LET n == Len(w.redoStack)
        action == w.redoStack[n]
        popped == [w EXCEPT !.redoStack = SubSeq(@, 1, n - 1)]
        done == runProcs(popped, action.redo, "redo")
        appended == Append(done.undoStack, action)
    IN  [done EXCEPT !.undoStack = IF Len(appended) > maxLength
                                   THEN Tail(appended) ELSE appended]

(***************************************************************************)
(* sync(): the flush.                                                      *)
(***************************************************************************)
\* which way sync() goes: "return", "clear" (nothing left to write) or
\* "dispatch"
syncOutcome(st) ==
    IF st.localState = Undef \/ st.syncState = Undef THEN "return"
    ELSE IF isDeepEqual(st.localState, st.syncState) THEN "clear"
    ELSE "dispatch"

clearedState(st) ==
    [st EXCEPT !.localState = Undef, !.inflightLocalState = Undef]

dispatchedState(st) ==
    [st EXCEPT !.inflightLocalState = deepClone(st.localState),
               !.pendingUndoOptions = Undef,
               !.waitingForUpdate = TRUE,
               !.isSetOperation = FALSE]

outboundDiff(st) == computeDiff(st.syncState, st.localState)

\* the undo diff computed in the direction of the outbound diff
undoDiffForward(st) == computeDiff(st.syncState, st.localState)

undoDiffOf(st) == computeDiff(st.localState, st.syncState)

\* currentUndoOptions?.undoable !== false (onPushUndo is given by the hook)
pushesUndo(st) ==
    st.pendingUndoOptions = Undef \/ st.pendingUndoOptions.undoable # FALSE

\* the remote write sync() awaits: setDoc of the local state or updateDoc of
\* the flattened diff
writeOf(st) ==
    IF st.isSetOperation
    THEN [kind |-> "set", payload |-> st.localState]
    ELSE [kind |-> "update", payload |-> flattenDiff(outboundDiff(st), <<>>)]

sync(w) ==
    LET st == w.state
        ran == [w EXCEPT !.edit.flushed = TRUE]
        noted == [ran EXCEPT !.edit.updates = 0, !.edit.plain = TRUE]
        entered == IF pushesUndo(st)
                  THEN onPushUndo(noted,
                                  [op |-> "update", arg |-> undoDiffOf(st)],
                                  [op |-> "update", arg |-> outboundDiff(st)],
                                  st.pendingUndoOptions,
                                  st.syncState, st.localState)
                  ELSE noted
        tracked == [entered EXCEPT
                      !.state = dispatchedState(st),
                      !.track = @ \cup {[id |-> w.nWrites + 1,
                                         base |-> st.localState,
                                         diff |-> outboundDiff(st),
                                         late |-> EmptyObj]}]
    IN  CASE syncOutcome(st) = "return" -> ran
          [] syncOutcome(st) = "clear" ->
                notify([noted EXCEPT !.state = clearedState(st)])
          [] syncOutcome(st) = "dispatch" ->
                dispatch(tracked, writeOf(st).kind, writeOf(st).payload)

\* the catch block of sync()
syncFailed(w) ==
    reportError([w EXCEPT !.state.waitingForUpdate = FALSE,
                          !.state.inflightLocalState = Undef], "write")

\* the catch block of deleteDocument()
deleteFailed(w) == reportError(w, "write")

(***************************************************************************)
(* The listener's callbacks.                                               *)
(***************************************************************************)
\* a rebase that keeps the later local state as it is, whatever the snapshot
rebasedLocalKeeping(st, newSyncData) ==
    IF /\ st.inflightLocalState # Undef
       /\ st.localState # Undef
       /\ ~isDeepEqual(st.localState, st.inflightLocalState)
    THEN st.localState
    ELSE Undef

\* the local state handleSnapshot leaves when a write was in flight
rebasedLocal(st, newSyncData) ==
    IF /\ st.inflightLocalState # Undef
       /\ st.localState # Undef
       /\ ~isDeepEqual(st.localState, st.inflightLocalState)
    THEN applyDiffMutable(deepClone(newSyncData),
                          computeDiff(st.inflightLocalState, st.localState))
    ELSE Undef

snapshotState(st, newSyncData, elapsed) ==
    LET synced == [st EXCEPT !.syncState = newSyncData]
        merged == IF st.waitingForUpdate
                  THEN [synced EXCEPT !.waitingForUpdate = FALSE,
                                      !.inflightLocalState = Undef,
                                      !.localState = rebasedLocal(st, newSyncData)]
                  ELSE synced
    IN  [merged EXCEPT !.isLoading = IF elapsed THEN FALSE ELSE @]

handleSnapshot(w, newSyncData) ==
    notify([w EXCEPT !.state = snapshotState(w.state, newSyncData,
                                             w.minLoadTimeElapsed),
                     !.loaded = TRUE])

\* handleError: with a retry policy it sets the retry timer, over the handle
\* of the one set before; without one it records and reports the error
handleError(w) ==
    IF retryOnError
    THEN [w EXCEPT !.retryTimeout = "pending", !.retryTimers = @ + 1]
    ELSE notify(reportError([w EXCEPT !.state.error = "error"], "read"))

(***************************************************************************)
(* The remote store, as the subscription uses it: updateDoc merges dotted  *)
(* paths into an existing document and fails on an absent one, setDoc      *)
(* creates or replaces, deleteDoc deletes; every change of the document is *)
(* delivered, in order, to the attached listener.                          *)
(***************************************************************************)
RECURSIVE setAtPath(_, _, _)
setAtPath(obj, path, value) ==
    LET key == Head(path)
        child == IF Len(path) = 1 THEN value
                 ELSE setAtPath(IF isPlainObject(Get(obj, key))
                                THEN Get(obj, key) ELSE EmptyObj,
                                Tail(path), value)
        keys == IF child = DelF THEN Keys(obj) \ {key}
                ELSE Keys(obj) \cup {key}
    IN  O([k2 \in keys |-> IF k2 = key THEN child ELSE obj.m[k2]])

RECURSIVE updateDoc(_, _)
updateDoc(doc, flatDiff) ==
    IF flatDiff = {} THEN doc
    ELSE LET pr == CHOOSE x \in flatDiff : TRUE
         IN  updateDoc(setAtPath(doc, pr[1], pr[2]), flatDiff \ {pr})

\* whether the remote store accepts write h against the document it holds
accepts(h) == h.kind # "update" \/ remote # Undef

\* the remote document after write h
written(h) ==
    CASE h.kind = "update" -> updateDoc(remote, h.payload)
      [] h.kind = "set" -> h.payload
      [] h.kind = "delete" -> Undef

\* the listener's queue after the remote document became `data`
delivered(data, confirms) ==
    IF unsubscribeListener /\ listenerLive
    THEN Append(snapQ, [data |-> data, confirms |-> confirms])
    ELSE snapQ

(***************************************************************************)
(* start() and stop().                                                     *)
(***************************************************************************)
\* start() with no listener attached: onSnapshot sends the document as it is
start(w) ==
    IF w.unsubscribeListener
    THEN w
    ELSE [w EXCEPT !.loaded = FALSE,
                   !.minLoadTimeElapsed = FALSE,
                   !.unsubscribeListener = TRUE,
                   !.listenerLive = TRUE,
                   !.snapQ = <<[data |-> remote, confirms |-> 0]>>,
                   !.nStarts = @ + 1,
                   !.stopped = FALSE,
                   !.minLoadTimers = @ \cup {w.nStarts + 1}]

\* the callback of the minimum-load-time timer
minLoadElapsed(w) ==
    LET shown == IF w.loaded
                 THEN notify([w EXCEPT !.state.isLoading = FALSE])
                 ELSE w
    IN  [shown EXCEPT !.minLoadTimeElapsed = TRUE]

\* stop(): clearTimeout reaches only the timers whose handles are kept
stop(w) ==
    [w EXCEPT !.unsubscribeListener = FALSE,
              !.listenerLive = FALSE,
              !.stopped = TRUE,
              !.snapQ = <<>>,
              !.autosaveTimeout = "null",
              !.autosaveTimers = IF w.autosaveTimeout = "pending"
                                 THEN @ - 1 ELSE @,
              !.retryTimeout = "null",
              !.retryTimers = IF w.retryTimeout = "pending" THEN @ - 1 ELSE @]

\* the retry timer that was set first fires: it is the one the handle names
\* only if no other is pending
retryFired(w) ==
    [w EXCEPT !.retryTimers = @ - 1,
              !.retryTimeout = IF w.retryTimers = 1 /\ @ = "pending"
                               THEN "fired" ELSE @]

\* the callback of the retry timer
retry(w) == start(stop(w))

\* configuration, and the variables of the other resources
lifeVars == <<isReadOnly, retryOnError>>

otherVars == <<pushed, col, awaiting, subscribers, hist, store, calc>>

\* the variables of the document, its store and the undo manager's stacks
coreVars == <<state, isReadOnly, retryOnError, unsubscribeListener,
              autosaveTimeout, autosaveTimers, retryTimeout, retryTimers,
              minLoadTimers, listenerLive, minLoadTimeElapsed, loaded, registry,
              sink, undoStack, redoStack, remote, writes, snapQ, nWrites,
              nEdits, nForeign, nStarts, pushed, stopped, procLog, edit, track>>

(***************************************************************************)
(* The actions: the calls of the user, the timers, the remote store.       *)
(***************************************************************************)
Start ==
    /\ ~unsubscribeListener
    /\ nStarts < MaxStarts
    /\ Commit(start(World))
    /\ UNCHANGED <<lifeVars, remote, nEdits, nForeign, otherVars>>

\* the minimum-load-time timer that was set first fires
MinLoadFire ==
    /\ minLoadTimers # {}
    /\ LET first == CHOOSE t \in minLoadTimers :
                        \A u \in minLoadTimers : t <= u
       IN  Commit(minLoadElapsed([World EXCEPT !.minLoadTimers = @ \ {first}]))
    /\ UNCHANGED <<lifeVars, remote, nEdits, nForeign, otherVars>>

Stop ==
    /\ Commit(stop(World))
    /\ UNCHANGED <<lifeVars, remote, nEdits, nForeign, otherVars>>

\* a retry timer fires
RetryFire ==
    /\ retryTimers > 0
    /\ nStarts < MaxStarts
    /\ Commit(retry(retryFired(World)))
    /\ UNCHANGED <<lifeVars, remote, nEdits, nForeign, otherVars>>

\* the user calls update(), at most `most` times
UpdateUpTo(most) ==
    \E call \in Updates :
        /\ nEdits < most
        /\ nEdits' = nEdits + 1
        /\ Commit(updateState(World, call[1], call[2], "user"))
        /\ UNCHANGED <<lifeVars, remote, nForeign, otherVars>>

Update == UpdateUpTo(MaxEdits)

Set ==
    \E call \in Sets :
        /\ nEdits < MaxEdits
        /\ nEdits' = nEdits + 1
        /\ Commit(setData(World, call[1], call[2], "user"))
        /\ UNCHANGED <<lifeVars, remote, nForeign, otherVars>>

Delete ==
    \E undoOptions \in {Undoable} :
        /\ nEdits < MaxEdits
        /\ nWrites < MaxWrites
        /\ nEdits' = nEdits + 1
        /\ Commit(deleteDocument(World, undoOptions))
        /\ UNCHANGED <<lifeVars, remote, nForeign, otherVars>>

\* the debounce timer fires
AutosaveFire ==
    /\ autosaveTimers > 0
    /\ syncOutcome(state) = "dispatch" => nWrites < MaxWrites
    /\ LET fired == [World EXCEPT
                       !.autosaveTimers = @ - 1,
                       !.autosaveTimeout = IF autosaveTimers = 1
                                           THEN "fired" ELSE @]
       IN  Commit(sync(fired))
    /\ UNCHANGED <<lifeVars, remote, nEdits, nForeign, otherVars>>

\* the user calls sync()
Sync ==
    /\ syncOutcome(state) = "dispatch" => nWrites < MaxWrites
    /\ Commit(sync(World))
    /\ UNCHANGED <<lifeVars, remote, nEdits, nForeign, otherVars>>

Undo ==
    /\ undoStack # <<>>
    /\ LET done == undo(World)
       IN  done.nWrites <= MaxWrites /\ Commit(done)
    /\ UNCHANGED <<lifeVars, remote, nEdits, nForeign, otherVars>>

Redo ==
    /\ redoStack # <<>>
    /\ LET done == redo(World)
       IN  done.nWrites <= MaxWrites /\ Commit(done)
    /\ UNCHANGED <<lifeVars, remote, nEdits, nForeign, otherVars>>

\* the action the undo manager's own user pushes as its n-th, with groupId g:
\* its undo and its redo each leave their mark
MgrAction(n, g) ==
    [undo |-> <<[op |-> "mark", arg |-> [proc |-> "undo", of |-> n]]>>,
     redo |-> <<[op |-> "mark", arg |-> [proc |-> "redo", of |-> n]]>>,
     groupId |-> g, from |-> Undef, to |-> Undef]

\* undoManager.push(action)
MgrPush ==
    \E g \in GroupIds :
        /\ Len(pushed) < MaxPushes
        /\ pushed' = Append(pushed, g)
        /\ Commit(push(World, MgrAction(Len(pushed) + 1, g)))
        /\ UNCHANGED <<lifeVars, remote, nEdits, nForeign, col, awaiting,
                       subscribers, hist, store, calc>>

\* undoManager.undo(); the log starts anew with it
MgrUndo ==
    /\ undoStack # <<>>
    /\ Commit(undo([World EXCEPT !.procLog = <<>>]))
    /\ UNCHANGED <<lifeVars, remote, nEdits, nForeign, otherVars>>

\* undoManager.redo(); the log starts anew with it
MgrRedo ==
    /\ redoStack # <<>>
    /\ Commit(redo([World EXCEPT !.procLog = <<>>]))
    /\ UNCHANGED <<lifeVars, remote, nEdits, nForeign, otherVars>>

Untrack(w, id) == [w EXCEPT !.track = {t \in @ : t.id # id}]

\* the remote store fails write h, the oldest: the catch block runs
Failed(h) ==
    /\ Commit(Untrack(IF h.kind = "delete"
                      THEN deleteFailed([World EXCEPT !.writes = Tail(@)])
                      ELSE syncFailed([World EXCEPT !.writes = Tail(@)]),
                      h.id))
    /\ UNCHANGED <<lifeVars, remote, nEdits, nForeign, otherVars>>

\* the remote store applies write h, the oldest
Applied(h) ==
    /\ remote' = written(h)
    /\ LET sent == [World EXCEPT !.writes = Tail(@),
                                 !.snapQ = delivered(written(h), h.id)]
       IN  Commit(IF unsubscribeListener /\ listenerLive
                  THEN sent
                  ELSE Untrack(sent, h.id))
    /\ UNCHANGED <<lifeVars, nEdits, nForeign, otherVars>>

\* the remote store answers the oldest write: it applies it, unless it is an
\* updateDoc of a document that does not exist
ServerApply ==
    /\ writes # <<>>
    /\ IF accepts(Head(writes))
       THEN Applied(Head(writes))
       ELSE Failed(Head(writes))

\* the remote store rejects the oldest write (a permission, the network)
ServerReject ==
    /\ writes # <<>>
    /\ Failed(Head(writes))

\* the listener's snapshot callback runs on the oldest snapshot: a document
\* that does not exist (and does not come from the cache) is an error
Deliver ==
    /\ snapQ # <<>>
    /\ LET taken == [World EXCEPT !.snapQ = Tail(@)]
       IN  IF Head(snapQ).data # Undef
           THEN Commit(Untrack(handleSnapshot(taken, Head(snapQ).data),
                               Head(snapQ).confirms))
           ELSE Commit(handleError(taken))
    /\ UNCHANGED <<lifeVars, remote, nEdits, nForeign, otherVars>>

\* the listener's error callback runs: the listener delivers nothing after it
ListenError ==
    /\ unsubscribeListener
    /\ listenerLive
    /\ Commit(handleError([World EXCEPT !.listenerLive = FALSE,
                                        !.snapQ = <<>>]))
    /\ UNCHANGED <<lifeVars, remote, nEdits, nForeign, otherVars>>

\* another party replaces or deletes the remote document, at most `most`
\* times
ForeignUpTo(most) ==
    \E data \in ForeignDocs \ {remote} :
        /\ nForeign < most
        /\ nForeign' = nForeign + 1
        /\ remote' = data
        /\ Commit([World EXCEPT !.snapQ = delivered(data, 0)])
        /\ UNCHANGED <<lifeVars, nEdits, otherVars>>

Foreign == ForeignUpTo(MaxForeign)

(***************************************************************************)
(* The collection subscription (createCollectionSubscription), created     *)
(* without onPushUndo, and its remote collection.  The handlers take the   *)
(* collection's record and give the record they leave.                     *)
(***************************************************************************)
\* the collection after construction: a non-lazy one has started its
\* listener
NewCollection(lazy, docs) ==
    [lazy |-> lazy,
     state |-> [syncState |-> Undef, localState |-> Undef,
                isLoading |-> ~lazy, isActive |-> ~lazy, error |-> "none",
                waitingForUpdate |-> FALSE, inflightLocalState |-> Undef,
                pendingUndoOptions |-> Undef],
     unsubscribeListener |-> ~lazy,
     listenerLive |-> ~lazy,
     opens |-> IF lazy THEN 0 ELSE 1,
     autosaveTimeout |-> "null",
     minLoadPending |-> ~lazy,
     minLoadTimeElapsed |-> FALSE,
     loaded |-> FALSE,
     registry |-> "absent",
     sink |-> [read |-> 0, write |-> 0],
     remote |-> docs,
     batches |-> <<>>,
     snapQ |-> IF lazy THEN <<>> ELSE <<docs>>,
     nEdits |-> 0, nBatches |-> 0, nForeign |-> 0,
     kinds |-> [id \in Ids |-> "none"]]

\* `key in obj` for an object made by an object literal: its own keys and
\* the names it inherits
In(key, obj) == key \in Keys(obj) \cup ProtoKeys

colGetMergedData(st) ==
    IF st.localState # Undef THEN st.localState
    ELSE IF st.syncState # Undef THEN st.syncState
    ELSE EmptyObj

\* notify: store.reportSyncState(syncKey, isSynced)
colNotify(c) ==
    [c EXCEPT !.registry = IF c.state.localState = Undef
                           THEN "synced" ELSE "unsynced"]

colScheduleAutosave(c) == [c EXCEPT !.autosaveTimeout = "pending"]

\* every entity of the mapping given its id
withIds(docs) ==
    O([id \in Keys(docs) |->
          IF isPlainObject(docs.m[id])
          THEN applyDiffMutable(docs.m[id], Obj({<<"id", P(id)>>}))
          ELSE docs.m[id]])

\* history: how the user's edit of entity id enters the local state: as the
\* update of an entity the listener has shown and the user has not removed,
\* as a removal, or as a creation
kindAfter(c, id, kind) ==
    [c EXCEPT !.kinds[id] =
        IF /\ kind = "update"
           /\ id \in Keys(c.state.syncState)
           /\ id \in Keys(colGetMergedData(c.state))
        THEN IF @ \in {"none", "removed"} THEN "updated" ELSE @
        ELSE IF kind = "remove" THEN "removed"
        ELSE "created"]

colUpdateState(c, diff, undoOptions) ==
    IF isReadOnly
    THEN c
    ELSE LET newLocalState ==
                 withIds(applyDiffMutable(deepClone(colGetMergedData(c.state)),
                                          diff))
         IN  colScheduleAutosave(colNotify(
                 [c EXCEPT !.state.localState = newLocalState,
                           !.state.pendingUndoOptions = undoOptions]))

addDocument(c, id, data, undoOptions) ==
    IF isReadOnly
    THEN c
    ELSE LET currentData == colGetMergedData(c.state)
             entity == applyDiffMutable(data, Obj({<<"id", P(id)>>}))
             newLocalState ==
                 O([key \in Keys(currentData) \cup {id} |->
                       IF key = id THEN entity ELSE currentData.m[key]])
         IN  colScheduleAutosave(colNotify(
                 [c EXCEPT !.state.localState = newLocalState,
                           !.state.pendingUndoOptions = undoOptions]))

removeDocument(c, id, undoOptions) ==
    LET currentData == colGetMergedData(c.state)
    IN  IF isReadOnly \/ ~In(id, currentData)
        THEN c
        ELSE LET newLocalState ==
                     O([key \in Keys(currentData) \ {id} |-> currentData.m[key]])
             IN  colScheduleAutosave(colNotify(
                     [c EXCEPT !.state.localState = newLocalState,
                               !.state.pendingUndoOptions = undoOptions]))

\* the operation sync() puts into the batch for key docId of the diff
batchOp(st, diff, docId) ==
    LET docDiff == diff.m[docId]
    IN  IF docDiff = DelF
        THEN [id |-> docId, kind |-> "delete", payload |-> Undef]
        ELSE IF st.syncState # Undef /\ ~In(docId, st.syncState)
        THEN [id |-> docId, kind |-> "set", payload |-> docDiff]
        ELSE [id |-> docId, kind |-> "update",
              payload |-> flattenDiff(docDiff, <<>>)]

\* the batch sync() commits
batchOf(st) ==
    LET diff == computeDiff(st.syncState, st.localState)
    IN  {batchOp(st, diff, docId) : docId \in Keys(diff)}

colSync(c) ==
    LET st == c.state
        outcome == syncOutcome(st)
    IN  IF outcome = "return"
        THEN c
        ELSE IF outcome = "clear"
        THEN colNotify([c EXCEPT !.state.localState = Undef,
                                 !.state.inflightLocalState = Undef,
                                 !.kinds = [id \in Ids |-> "none"]])
        ELSE [c EXCEPT !.state.inflightLocalState = deepClone(st.localState),
                       !.state.pendingUndoOptions = Undef,
                       !.state.waitingForUpdate = TRUE,
                       !.batches = Append(@, batchOf(st)),
                       !.nBatches = @ + 1,
                       !.kinds = [id \in Ids |-> "none"]]

\* sync()'s catch block
colSyncFailed(c) ==
    [c EXCEPT !.state.waitingForUpdate = FALSE,
              !.state.inflightLocalState = Undef,
              !.sink.write = @ + 1]

colHandleSnapshot(c, docs) ==
    LET st == c.state
        newSyncState == withIds(docs)
        synced == [st EXCEPT !.syncState = newSyncState]
        rebased == rebasedLocal(st, newSyncState)
        merged == IF st.waitingForUpdate
                  THEN [synced EXCEPT
                          !.waitingForUpdate = FALSE,
                          !.inflightLocalState = Undef,
                          !.localState = IF rebased = Undef THEN Undef
                                         ELSE withIds(rebased)]
                  ELSE synced
        shown == [merged EXCEPT !.isLoading = IF c.minLoadTimeElapsed
                                              THEN FALSE ELSE @]
    IN  colNotify([c EXCEPT !.state = shown, !.loaded = TRUE])

colHandleError(c) ==
    colNotify([c EXCEPT !.state.error = "error", !.sink.read = @ + 1])

startListener(c) ==
    IF c.unsubscribeListener
    THEN c
    ELSE [c EXCEPT !.loaded = FALSE,
                   !.minLoadTimeElapsed = FALSE,
                   !.unsubscribeListener = TRUE,
                   !.listenerLive = TRUE,
                   !.opens = @ + 1,
                   !.snapQ = <<c.remote>>,
                   !.minLoadPending = TRUE]

\* load without its test of isActive
loadUnguarded(c) ==
    startListener(colNotify([c EXCEPT !.state.isActive = TRUE,
                                      !.state.isLoading = TRUE]))

load(c) ==
    IF c.state.isActive
    THEN c
    ELSE startListener(colNotify([c EXCEPT !.state.isActive = TRUE,
                                           !.state.isLoading = TRUE]))

colStop(c) ==
    [c EXCEPT !.unsubscribeListener = FALSE,
              !.listenerLive = FALSE,
              !.snapQ = <<>>,
              !.autosaveTimeout = "null"]

\* the callback of the collection's minimum-load-time timer
colMinLoadElapsed(c) ==
    LET shown == IF c.loaded
                 THEN colNotify([c EXCEPT !.state.isLoading = FALSE])
                 ELSE c
    IN  [shown EXCEPT !.minLoadTimeElapsed = TRUE, !.minLoadPending = FALSE]

\* whether the remote store accepts the batch: an update needs its document
batchAccepted(docs, batch) ==
    \A op \in batch : op.kind = "update" => op.id \in Keys(docs)

\* the remote collection after every operation of the batch
batchApplied(docs, batch) ==
    LET deleted == {op.id : op \in {o \in batch : o.kind = "delete"}}
        created == {op.id : op \in {o \in batch : o.kind = "set"}}
        opOf(id) == CHOOSE op \in batch : op.id = id
        touched == {op.id : op \in batch}
    IN  O([id \in (Keys(docs) \ deleted) \cup created |->
              IF id \notin touched THEN docs.m[id]
              ELSE IF opOf(id).kind = "set" THEN opOf(id).payload
              ELSE updateDoc(docs.m[id], opOf(id).payload)])

\* the collection listener's queue after the remote collection became docs
colDelivered(c, docs) ==
    IF c.unsubscribeListener /\ c.listenerLive
    THEN Append(c.snapQ, docs)
    ELSE c.snapQ

\* the variables the collection's actions leave alone
docVars == <<state, isReadOnly, retryOnError, unsubscribeListener,
             autosaveTimeout, autosaveTimers, retryTimeout, retryTimers,
             minLoadTimers, listenerLive, minLoadTimeElapsed, loaded, registry,
             sink, undoStack, redoStack, remote, writes, snapQ, nWrites, nEdits,
             nForeign, nStarts, pushed, stopped, procLog, edit, track,
             awaiting, subscribers, hist, store, calc>>

ColLoad ==
    /\ col' = load(col)
    /\ UNCHANGED docVars

ColStop ==
    /\ col' = colStop(col)
    /\ UNCHANGED docVars

ColMinLoadFire ==
    /\ col.minLoadPending
    /\ col' = colMinLoadElapsed(col)
    /\ UNCHANGED docVars

\* the user calls add(id, {v: 'x'})
ColAdd ==
    \E id \in Ids :
        /\ col.nEdits < MaxColEdits
        /\ col' = [addDocument(kindAfter(col, id, "add"), id,
                               Stored("x"), Undef)
                      EXCEPT !.nEdits = @ + 1]
        /\ UNCHANGED docVars

\* the user calls update({[id]: {v: 'y'}})
ColUpdate ==
    \E id \in Ids :
        /\ col.nEdits < MaxColEdits
        /\ col' = [colUpdateState(kindAfter(col, id, "update"),
                                  Obj({<<id, Stored("y")>>}), Undef)
                      EXCEPT !.nEdits = @ + 1]
        /\ UNCHANGED docVars

\* the user calls remove(id)
ColRemove ==
    \E id \in Ids :
        /\ col.nEdits < MaxColEdits
        /\ col' = [removeDocument(kindAfter(col, id, "remove"), id, Undef)
                      EXCEPT !.nEdits = @ + 1]
        /\ UNCHANGED docVars

\* the collection's debounce timer fires
ColAutosaveFire ==
    /\ col.autosaveTimeout = "pending"
    /\ syncOutcome(col.state) = "dispatch" => col.nBatches < MaxColBatches
    /\ col' = colSync([col EXCEPT !.autosaveTimeout = "fired"])
    /\ UNCHANGED docVars

\* the user calls the collection's sync()
ColSync ==
    /\ syncOutcome(col.state) = "dispatch" => col.nBatches < MaxColBatches
    /\ col' = colSync(col)
    /\ UNCHANGED docVars

\* the remote store answers the oldest batch: it applies all of it, or, an
\* update in it finding no document, none of it
ColCommit ==
    /\ col.batches # <<>>
    /\ LET batch == Head(col.batches)
           taken == [col EXCEPT !.batches = Tail(@)]
           docs == batchApplied(col.remote, batch)
       IN  col' = IF batchAccepted(col.remote, batch)
                  THEN [taken EXCEPT !.remote = docs,
                                     !.snapQ = colDelivered(col, docs)]
                  ELSE colSyncFailed(taken)
    /\ UNCHANGED docVars

\* the collection listener's snapshot callback runs on the oldest snapshot
ColDeliver ==
    /\ col.snapQ # <<>>
    /\ col' = colHandleSnapshot([col EXCEPT !.snapQ = Tail(@)], Head(col.snapQ))
    /\ UNCHANGED docVars

\* the collection listener's error callback runs: the listener delivers
\* nothing after it
ColListenError ==
    /\ col.unsubscribeListener
    /\ col.listenerLive
    /\ col' = colHandleError([col EXCEPT !.listenerLive = FALSE,
                                         !.snapQ = <<>>])
    /\ UNCHANGED docVars

\* another party deletes an entity of the remote collection
ColForeign ==
    \E id \in Keys(col.remote) :
        /\ col.nForeign < MaxColForeign
        /\ LET docs == O([key \in Keys(col.remote) \ {id} |-> col.remote.m[key]])
           IN  col' = [col EXCEPT !.remote = docs,
                                  !.snapQ = colDelivered(col, docs),
                                  !.nForeign = @ + 1]
        /\ UNCHANGED docVars

(***************************************************************************)
(* Spec: a started document that its user edits and flushes while another *)
(* party changes it.  SpecUndo: a started document whose user edits and   *)
(* deletes, whose debounce timer flushes, and whose user drives the undo   *)
(* manager.                                                                *)
(***************************************************************************)
Next ==
    \/ Start
    \/ Update
    \/ Set
    \/ AutosaveFire
    \/ Sync
    \/ ServerApply
    \/ ServerReject
    \/ Deliver
    \/ Foreign

\* a document without a retry policy, no collection and no store of its own
Init ==
    /\ Constructed
    /\ retryOnError = FALSE
    /\ col = Undef
    /\ store = Undef
    /\ calc = Undef

Spec == Init /\ [][Next]_vars

NextUndo ==
    \/ Start
    \/ Update
    \/ Delete
    \/ AutosaveFire
    \/ Undo
    \/ Redo
    \/ ServerApply
    \/ ServerReject
    \/ Deliver

SpecUndo == Init /\ [][NextUndo]_vars

(***************************************************************************)
(* SpecLife: a document, with or without a retry policy, that its user     *)
(* starts, stops and edits while timers fire and the listener fails.       *)
(***************************************************************************)
InitLife ==
    /\ Constructed
    /\ retryOnError \in BOOLEAN
    /\ col = Undef
    /\ store = Undef
    /\ calc = Undef

NextLife ==
    \/ Start
    \/ Stop
    \/ MinLoadFire
    \/ RetryFire
    \/ UpdateUpTo(MaxLifeEdits)
    \/ AutosaveFire
    \/ Deliver
    \/ ListenError
    \/ ForeignUpTo(MaxLifeForeign)

SpecLife == InitLife /\ [][NextLife]_vars

(***************************************************************************)
(* SpecMgr: the undo manager alone, its user pushing actions of its own    *)
(* and undoing and redoing them.                                           *)
(***************************************************************************)
NextMgr ==
    \/ MgrPush
    \/ MgrUndo
    \/ MgrRedo

SpecMgr == Init /\ [][NextMgr]_vars

(***************************************************************************)
(* SpecColl: a collection, lazy or not, that its user loads, edits and     *)
(* flushes while another party deletes from it.                            *)
(***************************************************************************)
InitColl ==
    /\ Constructed
    /\ retryOnError = FALSE
    /\ col \in {NewCollection(lazy, docs) :
                  lazy \in BOOLEAN, docs \in InitialColls}
    /\ store = Undef
    /\ calc = Undef

NextColl ==
    \/ ColLoad
    \/ ColStop
    \/ ColMinLoadFire
    \/ ColAdd
    \/ ColUpdate
    \/ ColRemove
    \/ ColAutosaveFire
    \/ ColSync
    \/ ColCommit
    \/ ColDeliver
    \/ ColListenError
    \/ ColForeign

SpecColl == InitColl /\ [][NextColl]_vars

(***************************************************************************)
(* The undo manager with procedures that take time: undo() and redo() pop *)
(* their entry at once and go on when the entry's procedure settles, with  *)
(* success or with failure; other calls run in between.                    *)
(***************************************************************************)
getState(w) ==
    [undoStack |-> w.undoStack, redoStack |-> w.redoStack,
     canUndo |-> w.undoStack # <<>>, canRedo |-> w.redoStack # <<>>]

\* the undo manager's notify(): the subscriber is called with getState()
mgrNotify(subs, w) ==
    IF subs.on THEN [subs EXCEPT !.seen = getState(w)] ELSE subs

\* undo() up to its await: undoStack.pop()
undoPopped(w) ==
    [w EXCEPT !.undoStack = SubSeq(@, 1, Len(@) - 1)]

\* undo() after its procedure succeeded
undoResolved(w, action) ==
    [w EXCEPT !.redoStack = Append(@, action)]

\* undo()'s catch block
undoRejected(w, action) ==
    [w EXCEPT !.undoStack = Append(@, action)]

\* redo() up to its await: redoStack.pop()
redoPopped(w) ==
    [w EXCEPT !.redoStack = SubSeq(@, 1, Len(@) - 1)]

\* redo() after its procedure succeeded
redoResolved(w, action) ==
    LET appended == Append(w.undoStack, action)
    IN  [w EXCEPT !.undoStack = IF Len(appended) > maxLength
                                THEN Tail(appended) ELSE appended]

\* redo()'s catch block
redoRejected(w, action) ==
    [w EXCEPT !.redoStack = Append(@, action)]

clear(w) == [w EXCEPT !.undoStack = <<>>, !.redoStack = <<>>]

\* history: the calls so far are no longer undo() calls that overlap only
\* one another and succeed
Invalid(h) == [h EXCEPT !.valid = FALSE, !.undoStack = <<>>, !.redoStack = <<>>]

\* history: a round trip is not under way
NoTrip(h) == [h EXCEPT !.trip = "none", !.undoBefore = <<>>, !.redoBefore = <<>>]

\* whether every call awaiting its procedure is an undo()
OnlyUndos == \A i \in 1..Len(awaiting) : awaiting[i].kind = "undo"

\* history: the stacks of h after one more call, made when the calls before
\* it had finished
serialPushed(h, action) ==
    LET w == push([undoStack |-> h.undoStack, redoStack |-> h.redoStack], action)
    IN  [h EXCEPT !.undoStack = w.undoStack, !.redoStack = w.redoStack]

serialUndone(h) ==
    LET n == Len(h.undoStack)
    IN  IF n = 0 THEN h
        ELSE [h EXCEPT !.undoStack = SubSeq(@, 1, n - 1),
                       !.redoStack = Append(@, h.undoStack[n])]

serialRedone(h) ==
    LET n == Len(h.redoStack)
    IN  IF n = 0 THEN h
        ELSE LET w == redoResolved([undoStack |-> h.undoStack,
                                    redoStack |-> SubSeq(h.redoStack, 1, n - 1)],
                                   h.redoStack[n])
             IN  [h EXCEPT !.undoStack = w.undoStack, !.redoStack = w.redoStack]

\* undoManager.push(action) with ungrouped actions
AsyncPush ==
    /\ Len(pushed) < MaxAsyncPushes
    /\ LET action == MgrAction(Len(pushed) + 1, "none")
           w == push(World, action)
       IN  /\ Commit(w)
           /\ subscribers' = mgrNotify(subscribers, w)
           /\ hist' = NoTrip(IF hist.valid /\ awaiting = <<>>
                             THEN serialPushed(hist, action)
                             ELSE Invalid(hist))
    /\ pushed' = Append(pushed, "none")
    /\ awaiting' = [i \in 1..Len(awaiting) |->
                       [awaiting[i] EXCEPT !.overtaken = TRUE]]
    /\ UNCHANGED <<lifeVars, remote, nEdits, nForeign, col, store, calc>>

\* undoManager.undo() up to its await
UndoCall ==
    IF undoStack = <<>>
    THEN UNCHANGED vars
    ELSE /\ Commit(undoPopped(World))
         /\ awaiting' = Append(awaiting,
                               [kind |-> "undo",
                                action |-> undoStack[Len(undoStack)],
                                overtaken |-> FALSE,
                                pos |-> Len(undoStack)])
         /\ hist' = LET h == IF hist.valid /\ OnlyUndos
                             THEN serialUndone(hist) ELSE Invalid(hist)
                    IN  IF awaiting = <<>>
                        THEN [h EXCEPT !.trip = "undoing",
                                       !.undoBefore = undoStack,
                                       !.redoBefore = redoStack]
                        ELSE NoTrip(h)
         /\ UNCHANGED <<lifeVars, remote, nEdits, nForeign, col, pushed,
                        subscribers, store, calc>>

\* undoManager.redo() up to its await
RedoCall ==
    IF redoStack = <<>>
    THEN UNCHANGED vars
    ELSE /\ Commit(redoPopped(World))
         /\ awaiting' = Append(awaiting,
                               [kind |-> "redo",
                                action |-> redoStack[Len(redoStack)],
                                overtaken |-> FALSE,
                                pos |-> Len(redoStack)])
         /\ hist' = LET h == IF hist.valid /\ awaiting = <<>>
                             THEN serialRedone(hist) ELSE Invalid(hist)
                    IN  IF hist.trip = "undone"
                        THEN [h EXCEPT !.trip = "redoing"]
                        ELSE NoTrip(h)
         /\ UNCHANGED <<lifeVars, remote, nEdits, nForeign, col, pushed,
                        subscribers, store, calc>>

\* the procedure of the i-th call awaiting settles: it succeeded (ok) or it
\* failed, and the call goes on from its await
Settle(i, ok) ==
    LET call == awaiting[i]
        w == IF call.kind = "undo"
             THEN IF ok THEN undoResolved(World, call.action)
                  ELSE undoRejected(World, call.action)
             ELSE IF ok THEN redoResolved(World, call.action)
                  ELSE redoRejected(World, call.action)
    IN  /\ Commit(w)
        /\ awaiting' = [j \in 1..(Len(awaiting) - 1) |->
                           IF j < i THEN awaiting[j] ELSE awaiting[j + 1]]
        /\ subscribers' = IF ok THEN mgrNotify(subscribers, w) ELSE subscribers
        /\ hist' = LET h == IF ok THEN hist ELSE Invalid(hist)
                   IN  IF ok /\ hist.trip = "undoing"
                       THEN [h EXCEPT !.trip = "undone"]
                       ELSE NoTrip(h)
        /\ UNCHANGED <<lifeVars, remote, nEdits, nForeign, col, pushed, store, calc>>

AsyncSettle ==
    \E i \in 1..Len(awaiting), ok \in BOOLEAN : Settle(i, ok)

\* undoManager.clear()
Clear ==
    /\ LET w == clear(World)
       IN  /\ Commit(w)
           /\ subscribers' = mgrNotify(subscribers, w)
    /\ hist' = NoTrip(IF hist.valid /\ awaiting = <<>>
                      THEN [hist EXCEPT !.undoStack = <<>>, !.redoStack = <<>>]
                      ELSE Invalid(hist))
    /\ UNCHANGED <<lifeVars, remote, nEdits, nForeign, col, pushed, awaiting,
                   store, calc>>

\* undoManager.subscribe(fn)
Subscribe ==
    /\ ~subscribers.on
    /\ subscribers' = [on |-> TRUE, seen |-> Undef]
    /\ UNCHANGED <<coreVars, col, awaiting, hist, store, calc>>

\* the function subscribe(fn) returned is called
Unsubscribe ==
    /\ subscribers.on
    /\ subscribers' = Unsubscribed
    /\ UNCHANGED <<coreVars, col, awaiting, hist, store, calc>>

(***************************************************************************)
(* SpecAsync: the undo manager alone, its user pushing, undoing, redoing   *)
(* and clearing while procedures are pending, and subscribing to it.       *)
(***************************************************************************)
NextAsync ==
    \/ AsyncPush
    \/ UndoCall
    \/ RedoCall
    \/ AsyncSettle
    \/ Clear
    \/ Subscribe
    \/ Unsubscribe

SpecAsync == Init /\ [][NextAsync]_vars

(***************************************************************************)
(* The store (store.ts): the registry of sync states, its subscribers and  *)
(* the error sink.  syncStates is the Map in insertion order; delivered,   *)
(* reported, handled, console, threw and last are what the store's callers *)
(* and callbacks observed: the value each function was last called with    *)
(* and whether the last call of the store called it, the last value        *)
(* reported per key, what the last reportError gave to onError or to       *)
(* console.error and whether it threw, and the last call made.             *)
(***************************************************************************)
createStore(onError) ==
    [onError |-> onError,
     syncStates |-> <<>>,
     syncSubscribers |-> {},
     delivered |-> [fn \in Fns |-> [seen |-> Undef, called |-> FALSE]],
     reported |-> [key \in SyncKeys |-> Undef],
     handled |-> Undef,
     console |-> Undef,
     threw |-> FALSE,
     last |-> [op |-> "none"]]

\* Map.get(key)
mapGet(map, key) ==
    IF \E i \in 1..Len(map) : map[i].key = key
    THEN P(map[CHOOSE i \in 1..Len(map) : map[i].key = key].synced)
    ELSE Undef

\* Map.set(key, value): in place for a key the map has, else at the end
mapSet(map, key, value) ==
    IF \E i \in 1..Len(map) : map[i].key = key
    THEN [i \in 1..Len(map) |->
              IF map[i].key = key THEN [key |-> key, synced |-> value]
              ELSE map[i]]
    ELSE Append(map, [key |-> key, synced |-> value])

\* the loop of computeIsSynced from the i-th value on
RECURSIVE syncedFrom(_, _)
syncedFrom(map, i) ==
    IF i > Len(map) THEN TRUE
    ELSE IF ~map[i].synced THEN FALSE
    ELSE syncedFrom(map, i + 1)

\* an aggregate that is true as soon as one key is synced
computeAnySynced(s) ==
    \/ s.syncStates = <<>>
    \/ \E i \in 1..Len(s.syncStates) : s.syncStates[i].synced

computeIsSynced(s) == syncedFrom(s.syncStates, 1)

\* get isSynced()
storeIsSynced(s) == computeIsSynced(s)

notifySyncSubscribers(s) ==
    LET aggregate == computeIsSynced(s)
    IN  [s EXCEPT !.delivered =
            [fn \in Fns |-> IF fn \in s.syncSubscribers
                            THEN [seen |-> P(aggregate), called |-> TRUE]
                            ELSE @[fn]]]

\* reportSyncState recording and notifying whatever the recorded value
reportSyncStateAlways(s, key, synced) ==
    notifySyncSubscribers([s EXCEPT !.syncStates = mapSet(@, key, synced)])

reportSyncState(s, key, synced) ==
    LET prev == mapGet(s.syncStates, key)
    IN  IF prev # P(synced)
        THEN notifySyncSubscribers(
                 [s EXCEPT !.syncStates = mapSet(@, key, synced)])
        ELSE s

\* subscribeToSyncState registering fn without calling it
subscribeWithoutCall(s, fn) ==
    [s EXCEPT !.syncSubscribers = @ \cup {fn}]

subscribeToSyncState(s, fn) ==
    [s EXCEPT !.syncSubscribers = @ \cup {fn},
              !.delivered[fn] = [seen |-> P(computeIsSynced(s)),
                                 called |-> TRUE]]

\* the function subscribeToSyncState(fn) returned
unsubscribeFromSyncState(s, fn) ==
    [s EXCEPT !.syncSubscribers = @ \ {fn}]

\* store.reportError: onError(error, context) if configured, and then
\* whatever onError throws leaves reportError; else console.error
storeReportError(s, error, context) ==
    IF s.onError # "none"
    THEN [s EXCEPT !.handled = [error |-> error, context |-> context],
                   !.threw = (s.onError = "throws")]
    ELSE [s EXCEPT !.console = [error |-> error, context |-> context]]

\* the store as a call finds it: nothing called, given or thrown yet
beforeCall(s) ==
    [s EXCEPT !.delivered = [fn \in Fns |-> [@[fn] EXCEPT !.called = FALSE]],
              !.handled = Undef, !.console = Undef, !.threw = FALSE]

\* store.reportSyncState(key, synced)
ReportSyncStateOf(key, synced) ==
    /\ store' = [reportSyncState(beforeCall(store), key, synced)
                    EXCEPT !.reported[key] = P(synced),
                           !.last = [op |-> "report", key |-> key,
                                     synced |-> synced,
                                     prev |-> store.reported[key]]]
    /\ UNCHANGED <<coreVars, col, awaiting, subscribers, hist, calc>>

ReportSyncState ==
    \E key \in SyncKeys, synced \in BOOLEAN : ReportSyncStateOf(key, synced)

\* store.subscribeToSyncState(fn)
SubscribeToSyncStateOf(fn) ==
    /\ store' = [subscribeToSyncState(beforeCall(store), fn)
                    EXCEPT !.last = [op |-> "subscribe", fn |-> fn]]
    /\ UNCHANGED <<coreVars, col, awaiting, subscribers, hist, calc>>

SubscribeToSyncState == \E fn \in Fns : SubscribeToSyncStateOf(fn)

\* the function subscribeToSyncState(fn) returned is called
UnsubscribeFromSyncState ==
    \E fn \in store.syncSubscribers :
        /\ store' = [unsubscribeFromSyncState(beforeCall(store), fn)
                        EXCEPT !.last = [op |-> "unsubscribe", fn |-> fn]]
        /\ UNCHANGED <<coreVars, col, awaiting, subscribers, hist, calc>>

\* store.reportError(error, context)
ReportErrorOf(error, context) ==
    /\ store' = [storeReportError(beforeCall(store), error, context)
                    EXCEPT !.last = [op |-> "error", error |-> error,
                                     context |-> context]]
    /\ UNCHANGED <<coreVars, col, awaiting, subscribers, hist, calc>>

ReportError ==
    \E error \in Errors, context \in Contexts : ReportErrorOf(error, context)

(***************************************************************************)
(* SpecStore: a store alone, with or without an onError handler, its       *)
(* subscriptions reporting sync states and errors, its users subscribing.  *)
(***************************************************************************)
InitStore ==
    /\ Constructed
    /\ retryOnError = FALSE
    /\ col = Undef
    /\ store \in {createStore(onError) : onError \in Handlers}
    /\ calc = Undef

NextStore ==
    \/ ReportSyncState
    \/ SubscribeToSyncState
    \/ UnsubscribeFromSyncState
    \/ ReportError

SpecStore == InitStore /\ [][NextStore]_vars

(***************************************************************************)
(* SpecDiff: the functions of diff.ts called on their own.  calc holds the *)
(* arguments drawn at the start and what each call returned.               *)
(***************************************************************************)
\* computeDiff(a, b)
ComputeDiffCall ==
    /\ calc.op = "none"
    /\ "a" \in DOMAIN calc
    /\ calc' = [op |-> "computeDiff", a |-> calc.a, b |-> calc.b,
                diff |-> computeDiff(calc.a, calc.b)]
    /\ UNCHANGED <<coreVars, col, awaiting, subscribers, hist, store>>

\* applyDiff(a, diff)
ApplyDiffCall ==
    /\ calc.op = "computeDiff"
    /\ calc' = [op |-> "applyDiff", a |-> calc.a, b |-> calc.b,
                diff |-> calc.diff, result |-> applyDiff(calc.a, calc.diff)]
    /\ UNCHANGED <<coreVars, col, awaiting, subscribers, hist, store>>

\* computeUndoDiff(a, diff)
ComputeUndoDiffCall ==
    /\ calc.op = "applyDiff"
    /\ calc' = [op |-> "computeUndoDiff", a |-> calc.a, b |-> calc.b,
                diff |-> calc.diff, result |-> calc.result,
                undoDiff |-> computeUndoDiff(calc.a, calc.diff)]
    /\ UNCHANGED <<coreVars, col, awaiting, subscribers, hist, store>>

\* applyDiff(applyDiff(a, diff), undoDiff)
ApplyUndoDiffCall ==
    /\ calc.op = "computeUndoDiff"
    /\ calc' = [op |-> "applyUndoDiff", a |-> calc.a, b |-> calc.b,
                diff |-> calc.diff, result |-> calc.result,
                undoDiff |-> calc.undoDiff,
                restored |-> applyDiff(calc.result, calc.undoDiff)]
    /\ UNCHANGED <<coreVars, col, awaiting, subscribers, hist, store>>

\* flattenDiff(d)
FlattenDiffCall ==
    /\ calc.op = "none"
    /\ "d" \in DOMAIN calc
    /\ calc' = [op |-> "flattenDiff", d |-> calc.d,
                flat |-> flattenedDiff(calc.d)]
    /\ UNCHANGED <<coreVars, col, awaiting, subscribers, hist, store>>

\* unflattenDiff(flat)
UnflattenDiffCall ==
    /\ calc.op = "flattenDiff"
    /\ calc' = [op |-> "unflattenDiff", d |-> calc.d, flat |-> calc.flat,
                nested |-> unflattenDiff(calc.flat)]
    /\ UNCHANGED <<coreVars, col, awaiting, subscribers, hist, store>>

InitDiff ==
    /\ Constructed
    /\ retryOnError = FALSE
    /\ col = Undef
    /\ store = Undef
    /\ calc \in {[op |-> "none", a |-> a, b |-> b] : a, b \in Records}
                \cup {[op |-> "none", d |-> d] : d \in Diffs}

NextDiff ==
    \/ ComputeDiffCall
    \/ ApplyDiffCall
    \/ ComputeUndoDiffCall
    \/ ApplyUndoDiffCall
    \/ FlattenDiffCall
    \/ UnflattenDiffCall

SpecDiff == InitDiff /\ [][NextDiff]_vars

(***************************************************************************)
(* SpecSnap: one resource, the document of Spec or a collection that is    *)
(* not lazy, that its user edits and its debounce timer flushes while      *)
(* another party writes to it, with calc recording what the snapshot       *)
(* callback found when it last ran: the snapshot's value, the in-flight    *)
(* snapshot, the local state, and whether a write was awaited.  col is     *)
(* undefined in the behaviours of the document, and the document stays as  *)
(* constructed in the behaviours of the collection.                        *)
(***************************************************************************)
\* the listener's snapshot callback runs on the oldest snapshot, as Deliver
Snapshot ==
    /\ snapQ # <<>>
    /\ LET taken == [World EXCEPT !.snapQ = Tail(@)]
       IN  IF Head(snapQ).data # Undef
           THEN Commit(Untrack(handleSnapshot(taken, Head(snapQ).data),
                               Head(snapQ).confirms))
           ELSE Commit(handleError(taken))
    /\ calc' = [op |-> IF Head(snapQ).data # Undef THEN "handleSnapshot"
                       ELSE "handleError",
                newSyncData |-> Head(snapQ).data,
                inflightState |-> state.inflightLocalState,
                currentLocal |-> state.localState,
                waitingForUpdate |-> state.waitingForUpdate]
    /\ UNCHANGED <<lifeVars, remote, nEdits, nForeign, pushed, col, awaiting,
                   subscribers, hist, store>>

\* the collection listener's snapshot callback runs on the oldest snapshot,
\* as ColDeliver
ColSnapshot ==
    /\ col.snapQ # <<>>
    /\ col' = colHandleSnapshot([col EXCEPT !.snapQ = Tail(@)], Head(col.snapQ))
    /\ calc' = [op |-> "colHandleSnapshot",
                newSyncData |-> withIds(Head(col.snapQ)),
                inflightState |-> col.state.inflightLocalState,
                currentLocal |-> col.state.localState,
                waitingForUpdate |-> col.state.waitingForUpdate]
    /\ UNCHANGED <<coreVars, pushed, awaiting, subscribers, hist, store>>

\* another party adds the entity {v: 'x'} to the remote collection
ColForeignAdd ==
    \E id \in Ids \ Keys(col.remote) :
        /\ col.nForeign < MaxColForeign
        /\ LET docs == applyDiffMutable(col.remote, Obj({<<id, Stored("x")>>}))
           IN  col' = [col EXCEPT !.remote = docs,
                                  !.snapQ = colDelivered(col, docs),
                                  !.nForeign = @ + 1]
        /\ UNCHANGED docVars

InitSnap ==
    /\ Constructed
    /\ retryOnError = FALSE
    /\ col \in {Undef} \cup {NewCollection(FALSE, docs) : docs \in InitialColls}
    /\ store = Undef
    /\ calc = [op |-> "none"]

NextSnap ==
    \/ col = Undef /\ Start
    \/ col = Undef /\ UpdateUpTo(MaxSnapEdits)
    \/ col = Undef /\ AutosaveFire
    \/ col = Undef /\ ServerApply
    \/ col = Undef /\ ServerReject
    \/ col = Undef /\ Snapshot
    \/ col = Undef /\ ForeignUpTo(MaxSnapForeign)
    \/ col # Undef /\ ColAdd
    \/ col # Undef /\ ColUpdate
    \/ col # Undef /\ ColRemove
    \/ col # Undef /\ ColAutosaveFire
    \/ col # Undef /\ ColCommit
    \/ col # Undef /\ ColSnapshot
    \/ col # Undef /\ ColForeign
    \/ col # Undef /\ ColForeignAdd

SpecSnap == InitSnap /\ [][NextSnap]_vars

(***************************************************************************)
(* SpecGroup: a started document whose user edits field a under one undo   *)
(* group, whose debounce timer flushes, and whose user drives the undo     *)
(* manager.                                                                *)
(***************************************************************************)
\* the calls of update() the user makes: {a: 'y'} and {a: 'z'}, both with
\* undoGroupId 'g1'
GroupedUpdates ==
    {<<Obj({<<"a", P(v)>>}), [undoable |-> TRUE, undoGroupId |-> "g1"]>> :
        v \in {"y", "z"}}

GroupedUpdate ==
    \E call \in GroupedUpdates :
        /\ nEdits < MaxGroupEdits
        /\ nEdits' = nEdits + 1
        /\ Commit(updateState(World, call[1], call[2], "user"))
        /\ UNCHANGED <<lifeVars, remote, nForeign, otherVars>>

NextGroup ==
    \/ Start
    \/ GroupedUpdate
    \/ AutosaveFire
    \/ ServerApply
    \/ Deliver
    \/ Undo
    \/ Redo

SpecGroup == Init /\ [][NextGroup]_vars

(***************************************************************************)
(* SpecLive: the document alone with its user: the user starts it and      *)
(* edits it a bounded number of times, every write is answered and every   *)
(* snapshot delivered.  Fairness: a timer that is set fires (setTimeout),  *)
(* the remote store answers a write it was sent, and the listener runs its *)
(* callback on a snapshot it holds.  The user's calls are under no         *)
(* fairness.                                                               *)
(***************************************************************************)
NextLive ==
    \/ Start
    \/ UpdateUpTo(MaxLiveEdits)
    \/ Set
    \/ MinLoadFire
    \/ AutosaveFire
    \/ ServerApply
    \/ Deliver

SpecLive ==
    /\ Init
    /\ [][NextLive]_vars
    /\ WF_vars(MinLoadFire)
    /\ WF_vars(AutosaveFire)
    /\ WF_vars(ServerApply)
    /\ WF_vars(Deliver)

(***************************************************************************)
(* SpecFrame: a document, read-only or not, that its user starts, edits,   *)
(* replaces and deletes, and whose debounce timer flushes.                 *)
(***************************************************************************)
InitFrame ==
    /\ \E readOnly \in BOOLEAN : ConstructedAs(readOnly)
    /\ retryOnError = FALSE
    /\ col = Undef
    /\ store = Undef
    /\ calc = Undef

NextFrame ==
    \/ Start
    \/ Update
    \/ Set
    \/ Delete
    \/ AutosaveFire
    \/ ServerApply
    \/ Deliver

SpecFrame == InitFrame /\ [][NextFrame]_vars

(***************************************************************************)
(* The properties.                                                         *)
(***************************************************************************)
\* a flush: the debounce timer fires, or the user calls sync()
Flush == AutosaveFire \/ Sync

\* the remote store fails the oldest write
Rejects == writes # <<>> /\ Failed(Head(writes))

\* the value a recorded edit left in a field
Left(v) == IF v = DelF THEN Undef ELSE v

\* the write a flush would append for the local state it finds
FlushWrite(kind, payload) ==
    /\ Len(writes') = Len(writes) + 1
    /\ writes'[Len(writes')].kind = kind
    /\ writes'[Len(writes')].payload = payload

\* C1: when the snapshot that confirms a dispatched write is processed, every
\* field edited locally after that dispatch still has, in the merged value,
\* the value the edit gave it.
C1_LateEditsSurvive ==
    [][\A t \in track :
          (/\ snapQ # <<>>
           /\ Head(snapQ).data # Undef
           /\ Head(snapQ).confirms = t.id
           /\ Deliver)
          => \A f \in Keys(t.late) :
                Get(getMergedData(state'), f) = Left(Get(t.late, f))]_vars

\* C2: when the remote store rejects a flushed write whose edit is not in the
\* remote document and was not edited further, then whatever snapshot came in
\* between, the in-flight marker is cleared, localState still holds the
\* edited value, the error goes to the sink as a 'write' error, the resource
\* stays unsynced and nothing is dispatched again.
C2_RejectedWriteKeepsEdit ==
    [][\A t \in track :
          (/\ writes # <<>>
           /\ Head(writes).id = t.id
           /\ t.late = EmptyObj
           /\ \/ remote = Undef
              \/ \E f \in Keys(t.diff) : Get(remote, f) # Get(t.base, f)
           /\ Rejects)
          => /\ state'.inflightLocalState = Undef
             /\ state'.localState = t.base
             /\ ~isSynced(state')
             /\ sink'.write = sink.write + 1
             /\ writes' = Tail(writes)]_vars

\* C3: a write dispatched while the most recent pending edit is an update()
\* is an updateDoc, a setDoc is dispatched only while the most recent pending
\* edit is a set(); and an updateDoc that reaches a deleted remote document
\* fails into the write-error path and leaves the document deleted.
C3_UpdateNeverRecreates ==
    [][/\ \A i \in 1..Len(writes') :
             /\ writes'[i].pending = "update" => writes'[i].kind = "update"
             /\ writes'[i].kind = "set" => writes'[i].pending = "set"
       /\ (/\ writes # <<>>
           /\ Head(writes).kind = "update"
           /\ remote = Undef
           /\ ServerApply \/ ServerReject)
          => /\ remote' = Undef
             /\ sink'.write = sink.write + 1
             /\ state'.inflightLocalState = Undef
             /\ writes' = Tail(writes)]_vars

\* C3's case: another party deleted the document, the flush of an update()
\* was dispatched and failed, and the document is still deleted
C3_Witness ==
    /\ remote = Undef
    /\ nForeign = 1
    /\ edit.kind = "update"
    /\ edit.flushed
    /\ sink.write = 1
    /\ writes = <<>>
    /\ state.localState # Undef

\* C4: after set() on a document that does not exist remotely and of which no
\* snapshot was ever received, the next flush dispatches one setDoc of the
\* value set.
C4_SetCreatesAbsent ==
    [][(/\ remote = Undef
        /\ state.syncState = Undef
        /\ edit.kind = "set"
        /\ ~edit.flushed
        /\ Flush)
       => FlushWrite("set", state.localState)]_vars

\* C5 as stated: a flush that follows one or more update() calls (default
\* options) dispatches exactly one updateDoc of
\* computeDiff(syncState, localState) and pushes exactly one undo action, and
\* no more than one debounce timer is ever pending.
C5_OneWritePerFlush ==
    [][/\ (edit.updates >= 1 /\ edit.plain /\ Flush)
          => /\ FlushWrite("update",
                           flattenDiff(computeDiff(state.syncState,
                                                   state.localState), <<>>))
             /\ edit'.pushes = 1
       /\ autosaveTimers' <= 1]_vars

\* C5 amended: a flush that follows one or more update() calls (default
\* options) dispatches exactly one updateDoc of
\* computeDiff(syncState, localState) and pushes exactly one undo action,
\* which goes from syncState to localState, when localState is present and
\* differs from syncState; otherwise it dispatches nothing and pushes
\* nothing. No more than one debounce timer is ever pending.
C5_OneWritePerChangingFlush ==
    [][/\ (edit.updates >= 1 /\ edit.plain /\ Flush)
          => IF /\ state.localState # Undef
                /\ ~isDeepEqual(state.localState, state.syncState)
             THEN /\ FlushWrite("update",
                                flattenDiff(computeDiff(state.syncState,
                                                        state.localState),
                                            <<>>))
                  /\ edit'.pushes = 1
                  /\ undoStack' # <<>>
                  /\ undoStack'[Len(undoStack')].from = state.syncState
                  /\ undoStack'[Len(undoStack')].to = state.localState
             ELSE /\ writes' = writes
                  /\ undoStack' = undoStack
                  /\ edit'.pushes = 0
       /\ autosaveTimers' <= 1]_vars

\* C5's case: two update() calls on different fields were flushed as one
\* updateDoc carrying both fields, with one undo action
C5_Witness ==
    /\ nEdits = 2
    /\ nWrites = 1
    /\ Len(writes) = 1
    /\ writes[1].kind = "update"
    /\ writes[1].payload = {<<<<"a">>, P("y")>>, <<<<"b">>, P("y")>>}
    /\ Len(undoStack) = 1
    /\ edit.pushes = 1
    /\ autosaveTimers = 0

\* C6: for the edit it is flushing the resource has invoked onPushUndo at most
\* once, and not at all if the edit was marked undoable: false.
C6_OnePushPerEdit ==
    /\ edit.pushes <= 1
    /\ ~edit.undoable => edit.pushes = 0

\* whether an undo action was pushed by a flush (its procedures are updates)
FromFlush(action) == action.undo[1].op = "update" /\ Len(action.undo) = 1

C8_UndoOfDeleteRestores ==
    [][(/\ edit.by = "undo"
        /\ edit.kind = "set"
        /\ ~edit.flushed
        /\ remote = Undef
        /\ writes = <<>>
        /\ snapQ = <<>>
        /\ redoStack # <<>>
        /\ Flush)
       => FlushWrite("set", redoStack[Len(redoStack)].from)]_vars

\* C9: the fields an updateDoc carries are fields the local user's pending
\* edits touched.
C9_OnlyTouchedFieldsSent ==
    \A i \in 1..Len(writes) :
        writes[i].kind = "update"
        => {pr[1][1] : pr \in writes[i].payload} \subseteq writes[i].touched

\* C10: while the resource reports isSynced = true, no write it flushed is
\* still unanswered and the merged value is syncState.
C10_SyncedMeansConfirmed ==
    isSynced(state)
    => /\ track = {}
       /\ getMergedData(state) = state.syncState


\* C15: after stop() has returned, and until start() or an edit operation is
\* called again, no debounce timer that fires dispatches a write, no retry
\* timer that fires reopens the subscription, and one more stop() changes
\* nothing.
C15_NothingFiresAfterStop ==
    [][stopped =>
          /\ autosaveTimers' < autosaveTimers => nWrites' = nWrites
          /\ retryTimers' < retryTimers => ~unsubscribeListener'
          /\ Stop => UNCHANGED vars]_vars

\* C16: isLoading becomes false only once a snapshot has been received since
\* the latest start() and the minimum-load-time timer of that start() has
\* fired, in whichever order the two happen.
C16_LoadingClearsAfterBoth ==
    [][state.isLoading /\ ~state'.isLoading
          => loaded' /\ nStarts' \notin minLoadTimers']_vars

\* a read error reaches the document: the listener's error callback runs, or
\* the snapshot callback runs on a server snapshot of an absent document
ReadError ==
    \/ ListenError
    \/ snapQ # <<>> /\ Head(snapQ).data = Undef /\ Deliver

\* C17: a read error on a document without a retry policy sets the error
\* field, reports one 'read' error to the store's sink and notifies; with a
\* retry policy it sets no error field and reports nothing, and a retry timer
\* tears the subscription down and reopens it only once for the errors of one
\* subscription: never on a subscription that has had no error since it was
\* opened.
C17_ReadErrorSurfacesOrRetriesOnce ==
    [][/\ ReadError =>
            IF retryOnError
            THEN state' = state /\ sink' = sink /\ retryTimers' = retryTimers + 1
            ELSE /\ state'.error = "error"
                 /\ sink' = [sink EXCEPT !["read"] = @ + 1]
                 /\ registry' = IF isSynced(state') THEN "synced" ELSE "unsynced"
       /\ retryTimers' < retryTimers /\ nStarts' > nStarts
            => retryTimeout = "pending"]_vars

\* the marks of the n-th to the m-th action pushed, newest first
RECURSIVE UndoMarks(_, _)
UndoMarks(m, n) ==
    IF m < n THEN <<>>
    ELSE <<[proc |-> "undo", of |-> m]>> \o UndoMarks(m - 1, n)

\* C18: after two actions with the same groupId were pushed onto the empty
\* undo manager, one undo() runs the undo procedure of the second action,
\* then that of the first, and leaves the undo stack empty.
C18_GroupUndoneNewestFirst ==
    [][/\ Len(pushed) = 2 /\ truthy(pushed[1]) /\ pushed[1] = pushed[2]
       /\ procLog = <<>>
       /\ MgrUndo
       => procLog' = UndoMarks(2, 1) /\ undoStack' = <<>>]_vars

\* the last n entries of sequence q
LastN(q, n) == IF Len(q) <= n THEN q ELSE SubSeq(q, Len(q) - n + 1, Len(q))

\* the entry push makes of the top entry and the action merged into it
Merged(top, action) ==
    [undo |-> top.undo \o action.undo, redo |-> action.redo \o top.redo,
     groupId |-> action.groupId, from |-> top.from, to |-> action.to]

\* what a push of the action with groupId g does to the undo stack: "merge"
\* (the top entry replaced by the merged one, the length unchanged),
\* "append" (a new top entry, the oldest dropped over the bound) or "other"
PushDoes(g) ==
    LET n == Len(undoStack)
        action == MgrAction(Len(pushed) + 1, g)
    IN  IF /\ n > 0
           /\ undoStack' = [undoStack EXCEPT ![n] = Merged(undoStack[n], action)]
        THEN "merge"
        ELSE IF undoStack' = LastN(Append(undoStack, action), maxLength)
        THEN "append"
        ELSE "other"

\* C19 as stated: push merges into the top entry if and only if the action
\* carries a groupId (any string) equal to the top entry's; otherwise it
\* appends.
C19_MergeIffSameGroupId ==
    [][\A g \in GroupIds :
          pushed' = Append(pushed, g) /\ MgrPush
          => PushDoes(g) =
                 IF /\ g # "none" /\ undoStack # <<>>
                    /\ undoStack[Len(undoStack)].groupId = g
                 THEN "merge" ELSE "append"]_vars

\* C19, amended: push merges into the top entry if and only if the action
\* carries a non-empty groupId equal to the top entry's; in every other case
\* (no groupId, the empty string, a different groupId, an empty stack, an
\* equal groupId deeper in the stack only) it appends.
C19_MergeIffSameNonEmptyGroupId ==
    [][\A g \in GroupIds :
          pushed' = Append(pushed, g) /\ MgrPush
          => PushDoes(g) =
                 IF /\ truthy(g) /\ undoStack # <<>>
                    /\ undoStack[Len(undoStack)].groupId = g
                 THEN "merge" ELSE "append"]_vars

\* a merge has happened, and an append over an entry of the same groupId
\* deeper in the stack
C19_Witness ==
    /\ Len(undoStack) = 2
    /\ Len(undoStack[1].undo) = 2
    /\ Len(undoStack[2].undo) = 1
    /\ pushed = <<"g1", "g1", "g2">>

\* C20: once more than maxLength ungrouped actions have been pushed (and
\* nothing undone), the undo stack holds exactly the maxLength actions pushed
\* last, in push order.
C20_KeepsMostRecent ==
    /\ Len(pushed) > maxLength
    /\ \A i \in 1..Len(pushed) : pushed[i] = "none"
    /\ procLog = <<>>
    => undoStack = [i \in 1..maxLength |->
                       MgrAction(Len(pushed) - maxLength + i, "none")]

C20_Witness ==
    /\ Len(pushed) = maxLength + 1
    /\ \A i \in 1..Len(pushed) : pushed[i] = "none"
    /\ procLog = <<>>
    /\ undoStack[1] = MgrAction(2, "none")

\* a flush of the collection: the debounce timer's or the user's sync()
ColFlush == ColAutosaveFire \/ ColSync

\* the operation the flush owes key docId of the outbound diff: a delete for
\* the deletion sentinel, a wholesale create for a key absent from syncState,
\* a partial merge of the flattened diff otherwise
owedOp(st, diff, docId) ==
    IF diff.m[docId] = DelF
    THEN [id |-> docId, kind |-> "delete", payload |-> Undef]
    ELSE IF docId \notin Keys(st.syncState)
    THEN [id |-> docId, kind |-> "set", payload |-> diff.m[docId]]
    ELSE [id |-> docId, kind |-> "update",
          payload |-> flattenDiff(diff.m[docId], <<>>)]

\* C11: a collection flush with outbound diff D = computeDiff(syncState,
\* localState) commits exactly one batch, holding for each key of D a delete
\* (deletion sentinel), a create (key absent from syncState) or a partial
\* merge of the flattened diff (every other key); the remote store applies
\* all of the batch or none of it.
C11_FlushIsOneBatchOfOwedOps ==
    [][/\ syncOutcome(col.state) = "dispatch" /\ ColFlush
          => LET diff == computeDiff(col.state.syncState, col.state.localState)
             IN  col'.batches =
                     Append(col.batches, {owedOp(col.state, diff, docId) :
                                              docId \in Keys(diff)})
       /\ col.batches # <<>> /\ ColCommit
          => col'.remote \in {col.remote,
                              batchApplied(col.remote, Head(col.batches))}]_vars

\* C12: when a collection flush sends an entity that the user only edited by
\* update() while it existed, the operation for it is a partial merge, never
\* a create, also when another party has deleted the entity and the deleting
\* snapshot was delivered before the flush.
C12_UpdateNeverRecreatesEntity ==
    [][syncOutcome(col.state) = "dispatch" /\ ColFlush
          => \A op \in col'.batches[Len(col'.batches)] :
                 col.kinds[op.id] = "updated" => op.kind = "update"]_vars

\* C13: load() on a lazy collection not yet active opens the first and only
\* remote subscription; load() on an active collection, lazy or not, changes
\* nothing; a non-lazy collection has had its one subscription opened since
\* construction.
C13_LoadOpensOnce ==
    [][ColLoad =>
          IF col.state.isActive
          THEN col' = col /\ (~col.lazy => col.opens = 1)
          ELSE col.lazy /\ col.opens = 0 /\ col'.opens = 1]_vars

\* a lazy collection was loaded, stopped, edited and loaded again
C13_Witness ==
    /\ col.lazy
    /\ col.state.isActive
    /\ col.opens = 1
    /\ ~col.unsubscribeListener
    /\ col.state.localState # Undef

\* C14: a lazy collection on which load() has not been called is inactive,
\* its merged value is the empty mapping and its sync key is not registered
\* in the store.
C14_UnloadedLazyStaysEmpty ==
    col.lazy /\ ~col.state.isActive
    => /\ colGetMergedData(col.state) = EmptyObj
       /\ col.registry = "absent"

\* C21: in every state of the undo manager, whatever push, undo, redo
\* (succeeding or failing, overlapping or not) and clear have run, neither
\* stack holds more than maxLength entries.
C21_StacksBounded ==
    /\ Len(undoStack) <= maxLength
    /\ Len(redoStack) <= maxLength

\* C22: push leaves the redo stack empty, and an empty redo stack stays empty
\* until an undo() succeeds that was invoked after the last push.
C22_RedoEmptyAfterPush ==
    [][/\ AsyncPush => redoStack' = <<>>
       /\ redoStack = <<>> /\ redoStack' # <<>>
          => \E i \in 1..Len(awaiting) :
                 /\ awaiting[i].kind = "undo"
                 /\ ~awaiting[i].overtaken
                 /\ Settle(i, TRUE)]_vars

\* sequence q without its i-th element
Without(q, i) ==
    [j \in 1..(Len(q) - 1) |-> IF j < i THEN q[j] ELSE q[j + 1]]

\* C23: undo() on a non-empty undo stack removes the top entry and runs its
\* procedure once, and on success the entry becomes the top of the redo
\* stack; redo() does the same from the redo stack to the undo stack; on an
\* empty stack either changes nothing; a successful undo() followed by a
\* successful redo() leaves both stacks as they were before the undo().
C23_UndoRedoMoveAndRestore ==
    [][/\ UndoCall =>
            IF undoStack = <<>> THEN UNCHANGED vars
            ELSE /\ undoStack' = SubSeq(undoStack, 1, Len(undoStack) - 1)
                 /\ Len(awaiting') = Len(awaiting) + 1
                 /\ awaiting'[Len(awaiting')].action = undoStack[Len(undoStack)]
       /\ RedoCall =>
            IF redoStack = <<>> THEN UNCHANGED vars
            ELSE /\ redoStack' = SubSeq(redoStack, 1, Len(redoStack) - 1)
                 /\ Len(awaiting') = Len(awaiting) + 1
                 /\ awaiting'[Len(awaiting')].action = redoStack[Len(redoStack)]
       /\ \A i \in 1..Len(awaiting) :
            Settle(i, TRUE) =>
                IF awaiting[i].kind = "undo"
                THEN redoStack' = Append(redoStack, awaiting[i].action)
                ELSE /\ undoStack' # <<>>
                     /\ undoStack'[Len(undoStack')] = awaiting[i].action
       /\ hist.trip = "redoing" /\ Settle(1, TRUE)
            => undoStack' = hist.undoBefore /\ redoStack' = hist.redoBefore]_vars

\* C24: when the procedure of a popped entry fails, the entry is back in the
\* stack it was popped from, at the position it was popped from, the other
\* stack is unchanged and so is the rest of its own stack, whatever ran
\* while the procedure was pending.
C24_FailureRestoresEntry ==
    [][\A i \in 1..Len(awaiting) :
          Settle(i, FALSE) =>
              LET call == awaiting[i]
              IN  IF call.kind = "undo"
                  THEN /\ redoStack' = redoStack
                       /\ Len(undoStack') >= call.pos
                       /\ undoStack'[call.pos] = call.action
                       /\ Without(undoStack', call.pos) = undoStack
                  ELSE /\ undoStack' = undoStack
                       /\ Len(redoStack') >= call.pos
                       /\ redoStack'[call.pos] = call.action
                       /\ Without(redoStack', call.pos) = redoStack]_vars

\* the entries of a stack
Entries(q) == {q[i] : i \in 1..Len(q)}

\* C25: undo() calls that overlap are serialized: no entry is held by two
\* calls or by a call and a stack, and once every procedure has settled the
\* stacks are those the same calls leave when run one after another.
C25_OverlappingUndosSerialized ==
    /\ \A i, j \in 1..Len(awaiting) :
           i # j => awaiting[i].action # awaiting[j].action
    /\ \A i \in 1..Len(awaiting) :
           awaiting[i].action \notin Entries(undoStack) \cup Entries(redoStack)
    /\ hist.valid /\ awaiting = <<>>
       => undoStack = hist.undoStack /\ redoStack = hist.redoStack

\* C26: once no call is pending, a subscriber that has been called holds the
\* state of the manager: its stacks, canUndo true iff the undo stack is not
\* empty, canRedo true iff the redo stack is not empty; a subscriber that
\* has unsubscribed holds nothing.
C26_SubscriberHoldsState ==
    /\ subscribers.on /\ subscribers.seen # Undef /\ awaiting = <<>>
       => subscribers.seen = getState(World)
    /\ ~subscribers.on => subscribers.seen = Undef

\* C27: store.isSynced is true exactly when every key that was reported was
\* last reported as synced; keys never reported do not count, and a store
\* nothing was reported to is synced.
C27_SyncedIffAllReportedTrue ==
    /\ storeIsSynced(store)
         = (\A key \in SyncKeys :
                store.reported[key] # Undef => store.reported[key] = P(TRUE))
    /\ (\A key \in SyncKeys : store.reported[key] = Undef) => storeIsSynced(store)

\* one key reported synced, another reported not synced, and where there is
\* a further key it was never reported: the store is not synced
C27_Witness ==
    /\ \E k1, k2 \in SyncKeys :
           store.reported[k1] = P(TRUE) /\ store.reported[k2] = P(FALSE)
    /\ ~storeIsSynced(store)

\* C28: reportSyncState(key, v) changes the registry and calls the
\* subscribers exactly when v differs from the value last reported for key
\* (a key never reported counts as different); otherwise the registry is
\* unchanged and no function is called.
C28_ReportActsIffChanged ==
    [][\A key \in SyncKeys, v \in BOOLEAN :
          ReportSyncStateOf(key, v) =>
              IF store.reported[key] # P(v)
              THEN /\ store'.syncStates # store.syncStates
                   /\ mapGet(store'.syncStates, key) = P(v)
                   /\ \A fn \in store.syncSubscribers :
                          store'.delivered[fn].called
              ELSE /\ store'.syncStates = store.syncStates
                   /\ \A fn \in Fns : ~store'.delivered[fn].called]_vars

\* a report of the value the key already had, with a subscriber listening
\* that was not called
C28_Witness ==
    /\ store.last.op = "report"
    /\ store.last.prev = P(store.last.synced)
    /\ store.syncSubscribers # {}
    /\ \A fn \in Fns : ~store.delivered[fn].called

\* C29: subscribeToSyncState(fn) calls fn at once with the current
\* aggregate; while fn is subscribed the value it was last called with is
\* store.isSynced after every call of the store; a function that is not
\* subscribed is not called.
C29_SubscriberHoldsAggregate ==
    [][/\ \A fn \in Fns :
            SubscribeToSyncStateOf(fn) =>
                store'.delivered[fn] = [seen |-> P(storeIsSynced(store)),
                                        called |-> TRUE]
       /\ \A fn \in store'.syncSubscribers :
            store'.delivered[fn].seen = P(storeIsSynced(store'))
       /\ \A fn \in Fns \ store'.syncSubscribers :
            ~store'.delivered[fn].called]_vars

\* a report has just changed the aggregate: the subscribed function was
\* called with it, the one that unsubscribed still holds the old value
C29_Witness ==
    /\ store.last.op = "report"
    /\ \E fn \in store.syncSubscribers :
           /\ store.delivered[fn].called
           /\ store.delivered[fn].seen = P(storeIsSynced(store))
    /\ \E fn \in Fns \ store.syncSubscribers :
           /\ store.delivered[fn].seen # Undef
           /\ store.delivered[fn].seen # P(storeIsSynced(store))

\* C30: reportError(error, context) gives the error and its context to
\* onError when the store has one and to console.error when it has none, and
\* does not throw, whatever onError does.
C30_ReportErrorForwardsAndReturns ==
    [][\A error \in Errors, context \in Contexts :
          ReportErrorOf(error, context) =>
              LET given == [error |-> error, context |-> context]
              IN  /\ IF store.onError # "none"
                     THEN store'.handled = given /\ store'.console = Undef
                     ELSE store'.console = given /\ store'.handled = Undef
                  /\ ~store'.threw]_vars

\* C31: for all records a and b, applyDiff(a, computeDiff(a, b)) equals b.
C31_DiffRoundTrip ==
    calc.op = "applyDiff" => calc.result = calc.b

\* C32: for every record a and every diff computeDiff produces from a,
\* applying the diff and then computeUndoDiff(a, diff) gives a back.
C32_UndoLaw ==
    calc.op = "applyUndoDiff" => calc.restored = calc.a

\* the value of diff d at a path of keys, Undef where the path leaves d
RECURSIVE AtPath(_, _)
AtPath(d, path) ==
    IF path = <<>> THEN d
    ELSE AtPath(Get(d, Head(path)), Tail(path))

\* C33: unflattenDiff(flattenDiff(d)) equals d for every nested diff d, and
\* every entry of flattenDiff(d) is a primitive, an array or a sentinel of d
\* stored whole under its dotted path.
C33_FlattenRoundTrip ==
    /\ calc.op = "flattenDiff" =>
           \A e \in calc.flat :
               /\ e[2].k \in {"p", "a", "del", "ts"}
               /\ LET parts == split(e[1])
                  IN  AtPath(calc.d, [i \in 1..Len(parts) |->
                                         partName(parts[i])]) = e[2]
    /\ calc.op = "unflattenDiff" => calc.nested = calc.d

\* what the snapshot callback leaves of a resource's sync record: record
\* st becomes record st2 on snapshot S, the local state being rebased(I, L)
\* where a write was awaited and the user has edited since it was dispatched
snapshotLeaves(st, st2, S, rebased(_, _)) ==
    LET I == st.inflightLocalState
        L == st.localState
    IN  /\ st2.syncState = S
        /\ ~st2.waitingForUpdate
        /\ st.waitingForUpdate => st2.inflightLocalState = Undef
        /\ IF st.waitingForUpdate
           THEN IF I # Undef /\ L # Undef /\ L # I
                THEN st2.localState = rebased(I, L)
                ELSE st2.localState = Undef
           ELSE st2.localState = L /\ st2.inflightLocalState = I

\* C34, as stated: a snapshot S of a document or of a collection processed
\* while a write is awaited, with in-flight snapshot I and local state L,
\* makes syncState S and clears the in-flight marker; localState becomes
\* applyDiff(S, computeDiff(I, L)) if L differs from I and absent if it does
\* not; processed while no write is awaited it replaces syncState and leaves
\* localState as it is.
C34_RebaseIsTheDiffOnTheSnapshot ==
    [][/\ (snapQ # <<>> /\ Head(snapQ).data # Undef /\ Snapshot) =>
            LET S == Head(snapQ).data
                R(I, L) == applyDiff(S, computeDiff(I, L))
            IN  snapshotLeaves(state, state', S, R)
       /\ (col # Undef /\ col.snapQ # <<>> /\ ColSnapshot) =>
            LET S == withIds(Head(col.snapQ))
                R(I, L) == applyDiff(S, computeDiff(I, L))
            IN  snapshotLeaves(col.state, col'.state, S, R)]_vars

\* C34, amended: as stated for a document; for a collection, S is the
\* snapshot with every entity given its id, and the rebased local state is
\* applyDiff(S, computeDiff(I, L)) with every entity given its id.
C34_SnapshotRebases ==
    [][/\ (snapQ # <<>> /\ Head(snapQ).data # Undef /\ Snapshot) =>
            LET S == Head(snapQ).data
                R(I, L) == applyDiff(S, computeDiff(I, L))
            IN  snapshotLeaves(state, state', S, R)
       /\ (col # Undef /\ col.snapQ # <<>> /\ ColSnapshot) =>
            LET S == withIds(Head(col.snapQ))
                R(I, L) == withIds(applyDiff(S, computeDiff(I, L)))
            IN  snapshotLeaves(col.state, col'.state, S, R)]_vars

\* a snapshot of the collection has just been processed while a batch was
\* awaited and the user had edited since: the local state is the later edit
\* put on the snapshot with the ids put back, which the later edit put on the
\* snapshot lacks
C34_Witness ==
    /\ calc.op = "colHandleSnapshot"
    /\ calc.waitingForUpdate
    /\ calc.inflightState # Undef
    /\ calc.currentLocal # Undef
    /\ calc.currentLocal # calc.inflightState
    /\ col.state.syncState = calc.newSyncData
    /\ LET rebased == applyDiff(calc.newSyncData,
                                computeDiff(calc.inflightState,
                                            calc.currentLocal))
       IN  /\ col.state.localState = withIds(rebased)
           /\ col.state.localState # rebased

\* a snapshot of the document carrying another party's change has just been
\* processed while a write was awaited and the user had edited since: the
\* local state is the later edit put on the snapshot, and differs from what
\* it was
C34_DocumentRebased ==
    /\ calc.op = "handleSnapshot"
    /\ calc.waitingForUpdate
    /\ calc.inflightState # Undef
    /\ calc.currentLocal # calc.inflightState
    /\ state.syncState = calc.newSyncData
    /\ state.localState
         = applyDiff(calc.newSyncData,
                     computeDiff(calc.inflightState, calc.currentLocal))
    /\ state.localState # calc.currentLocal

\* C35: in every reachable state of a resource the in-flight snapshot is
\* present exactly when a write the resource dispatched awaits its confirming
\* snapshot, which is when waitingForUpdate is set; while present it is the
\* local state at the dispatch of a write that is awaited.  (track holds the
\* document's writes from their dispatch to their failure or to the
\* processing of the snapshot that confirms them.)
C35_InflightWhileWriteAwaited ==
    /\ col = Undef =>
          /\ state.inflightLocalState # Undef <=> state.waitingForUpdate
          /\ state.waitingForUpdate <=> track # {}
          /\ state.inflightLocalState # Undef =>
                \E t \in track : t.base = state.inflightLocalState
    /\ col # Undef =>
          (col.state.inflightLocalState # Undef <=> col.state.waitingForUpdate)

\* C36: a collection flush issues a delete only for entities the user
\* removed since the last flush, and every entity of syncState that the user
\* did not remove, so also one that another party added and a snapshot
\* delivered while local edits were pending, is in the merged value after
\* the flush.
C36_FlushDeletesOnlyRemoved ==
    [][col # Undef /\ syncOutcome(col.state) = "dispatch" /\ ColFlush =>
          /\ \A op \in col'.batches[Len(col'.batches)] :
                 op.kind = "delete" => col.kinds[op.id] = "removed"
          /\ \A id \in Keys(col.state.syncState) :
                 col.kinds[id] # "removed" =>
                     id \in Keys(colGetMergedData(col'.state))]_vars

\* the store after a resource reported entry under the first sync key and
\* another resource reported other, or nothing, under the second
storeAfterReports(entry, other) ==
    LET own == reportSyncState(createStore(Undef), 1, entry = "synced")
    IN  IF other = Undef THEN own ELSE reportSyncState(own, 2, other.v)

\* C37: once a resource has notified, the store's registry entry for its sync
\* key is "synced" exactly when its localState is absent; so a resource that
\* has a localState is recorded as not synced, and the store's isSynced is
\* false whatever a resource with another sync key has reported.
C37_RegistryTracksLocalState ==
    LET entry == IF col = Undef THEN registry ELSE col.registry
        local == IF col = Undef THEN state.localState ELSE col.state.localState
    IN  /\ entry \in {"synced", "unsynced"} =>
              (entry = "synced" <=> local = Undef)
        /\ local # Undef =>
              /\ entry = "unsynced"
              /\ \A other \in {Undef, P(TRUE), P(FALSE)} :
                     ~storeIsSynced(storeAfterReports(entry, other))

\* the snapshot callback has just cleared the local state of a document that
\* was recorded as not synced, and the registry records it as synced
C37_Witness ==
    /\ calc.op = "handleSnapshot"
    /\ calc.currentLocal # Undef
    /\ state.localState = Undef
    /\ registry = "synced"

\* whether an undo action is two flushed edits merged, the second made on the
\* value the first left
MergedInSequence(action) ==
    /\ Len(action.undo) = 2
    /\ action.undo[1].op = "update"
    /\ action.undo[2].op = "update"
    /\ action.undo[2].arg = computeDiff(action.to, applyDiff(action.from,
                                                            action.redo[2].arg))

\* C38: for an undo entry merged from two flushed edits of one undo group,
\* the second made on the result of the first, undo() run on the value after
\* the second edit gives the value before the first, and the redo() that
\* follows an undo gives the value after the second.
C38_GroupUndoneToStart ==
    [][/\ (/\ undoStack # <<>>
           /\ MergedInSequence(undoStack[Len(undoStack)])
           /\ getMergedData(state) = undoStack[Len(undoStack)].to
           /\ Undo)
          => getMergedData(state') = undoStack[Len(undoStack)].from
       /\ (/\ redoStack # <<>>
           /\ MergedInSequence(redoStack[Len(redoStack)])
           /\ edit.by = "undo"
           /\ Redo)
          => getMergedData(state') = redoStack[Len(redoStack)].to]_vars

\* the document is started and holds local edits
HoldsEdits == unsubscribeListener /\ state.localState # Undef

\* the document reports isSynced = true and its merged value is the remote
\* value
Settled == state.localState = Undef /\ getMergedData(state) = remote

\* a write the document dispatched has failed
WriteFailed == sink.write > 0

\* C39: a started document that holds local edits eventually has no local
\* state and a merged value equal to the remote value, unless a write it
\* dispatched failed.
C39_EditsEventuallySynced == HoldsEdits ~> (Settled \/ WriteFailed)

\* what a call that does nothing leaves as it is: the sync record, the
\* store's entry, the debounce timer, the undo manager, the remote operations
\* and the errors reported
NothingDone ==
    UNCHANGED <<state, registry, autosaveTimeout, autosaveTimers, undoStack,
                redoStack, writes, nWrites, sink, edit, track, snapQ, remote>>

\* C40: update() on a read-only document or on a document with no merged
\* value, and set() and delete() on a read-only document, change nothing:
\* not the sync record, not the store's entry, no timer is set, no undo
\* action pushed, no remote operation dispatched.
C40_GatedCallsChangeNothing ==
    [][/\ ((isReadOnly \/ getMergedData(state) = Undef) /\ Update)
          => NothingDone
       /\ (isReadOnly /\ (Set \/ Delete)) => NothingDone]_vars

\* the user has called an edit operation twice on a read-only document that
\* has received its snapshot: there is no local state, no timer, no write and
\* no undo action
C40_Witness ==
    /\ isReadOnly
    /\ nEdits = 2
    /\ state.syncState # Undef
    /\ state.localState = Undef
    /\ autosaveTimers = 0
    /\ nWrites = 0
    /\ undoStack = <<>>

====
